---- MODULE Spec2Model ----
(***************************************************************************)
(* Model of the svgfix.net processing library (lib/): parse-svg, bounds,    *)
(* crop, transform, normalize and the processSvg pipeline.                  *)
(*                                                                          *)
(* A document (an SVG string) is a record [tags, marks]: tags is the        *)
(* sequence of "<...>" spans the regular expressions of the library look    *)
(* at, marks is the list of opaque rewrites applied by the external         *)
(* optimizer (SVGO) and the formatter.  A tag carries its name, its kind    *)
(* (open, close, self-closing) and the attributes the library reads:        *)
(* viewBox (vb), path data (d), transform (tf) and the set of size          *)
(* attributes present (attrs).  An absent attribute is the empty sequence,  *)
(* a present attribute is a one-element sequence holding its value.         *)
(* The byte sizes of the statistics are not modelled.                       *)
(***************************************************************************)
EXTENDS Integers, Sequences, FiniteSets, TLC

VARIABLES svgString, options, opts, pc, processedSvg, viewBoxBefore, bounds,
          currentViewBox, errors, warnings, result, trace, parsed,
          call, ret, console, tool, tasks

\* the state of a processSvg run
runVars == <<svgString, options, opts, pc, processedSvg, viewBoxBefore, bounds,
             currentViewBox, errors, warnings, result, trace, parsed>>

\* a direct call of one library function and the value it returned
callVars == <<call, ret>>

\* the refs of the SvgTool component, and the file reads and processSvg
\* runs it has started
toolVars == <<tool, tasks>>

vars == <<runVars, callVars, console, toolVars>>

(* ------------------------------ bounds --------------------------------- *)
\* largest number of elements in the body of a generated input document
MaxElems == 1
\* largest number of options a caller leaves out of a partial options object
\* (besides the call that passes no options at all)
MaxOmitted == 1

\* most inputs a user submits to the SvgTool component
MaxSubmissions == 3

\* most copied-indicator timeouts pending at once
MaxTimers == 2

(* --------------------------- small helpers ----------------------------- *)
Min(a, b) == IF a < b THEN a ELSE b
Max(a, b) == IF a > b THEN a ELSE b
Front(s) == SubSeq(s, 1, Len(s) - 1)

RECURSIVE Concat(_)
Concat(ss) == IF ss = <<>> THEN <<>> ELSE Head(ss) \o Concat(Tail(ss))

\* index of the first / last position of s satisfying a test, 0 when none
FirstIdx(s, Test(_)) ==
  IF \E i \in 1..Len(s) : Test(s[i])
  THEN CHOOSE i \in 1..Len(s) : Test(s[i]) /\ \A j \in 1..(i - 1) : ~Test(s[j])
  ELSE 0
LastIdx(s, Test(_)) ==
  IF \E i \in 1..Len(s) : Test(s[i])
  THEN CHOOSE i \in 1..Len(s) : Test(s[i]) /\ \A j \in (i + 1)..Len(s) : ~Test(s[j])
  ELSE 0

(* ------------------------------ documents ------------------------------ *)
NoAttr == <<>>
Tag(name, kind, vb, d, tf, attrs) ==
  [name |-> name, kind |-> kind, vb |-> vb, d |-> d, tf |-> tf, attrs |-> attrs]
Open(name)  == Tag(name, "open", NoAttr, NoAttr, NoAttr, {})
Close(name) == Tag(name, "close", NoAttr, NoAttr, NoAttr, {})
Text(word)  == Tag(word, "text", NoAttr, NoAttr, NoAttr, {})
Doc(tags)   == [tags |-> tags, marks |-> <<>>]

\* path data: the box the geometry covers, and whether svg-path-commander
\* can parse it (both getPathBBox and transformPath throw on data it cannot)
PathData(valid, x, y, x2, y2) == [valid |-> valid, x |-> x, y |-> y, x2 |-> x2, y2 |-> y2]
PathTag(d, tf) == Tag("path", "self", NoAttr, <<d>>, tf, {})
\* attribute values are written in double quotes; a <path> whose d attribute
\* is written in single quotes records its opening and closing quote in dq
SingleQuotedPathTag(d) ==
  [name |-> "path", kind |-> "self", vb |-> NoAttr, d |-> <<d>>, tf |-> NoAttr,
   attrs |-> {}, dq |-> <<"'", "'">>]
Translate(x, y) == <<[fn |-> "translate", args |-> <<x, y>>]>>

IsSvgOpen(t)  == t.name = "svg" /\ t.kind \in {"open", "self"}
IsSvgClose(t) == t.name = "svg" /\ t.kind = "close"
HasViewBoxAttr(t) == t.vb # NoAttr

(* ---------------------- results of calls that may throw ---------------- *)
Ok(v)      == [ok |-> TRUE, val |-> v, msg |-> ""]
Throw(msg) == [ok |-> FALSE, val |-> <<>>, msg |-> msg]

(* --------------------------- lib/types.ts ------------------------------ *)
OptionNames == {"preprocessShapes", "cropWhitespace", "transformToOrigin",
                "normalizeViewBox", "optimize", "minify"}

\* variant of DEFAULT_OPTIONS: minify enabled by default
DefaultOptionsMinified == [o \in OptionNames |-> TRUE]

DEFAULT_OPTIONS ==
  [o \in OptionNames |-> IF o = "minify" THEN FALSE ELSE TRUE]

ViewBox(minX, minY, width, height) ==
  [minX |-> minX, minY |-> minY, width |-> width, height |-> height]
NullViewBox == [null |-> TRUE]
ZeroViewBox == ViewBox(0, 0, 0, 0)

BoundingBox(x, y, x2, y2) ==
  [x |-> x, y |-> y, x2 |-> x2, y2 |-> y2, width |-> x2 - x, height |-> y2 - y]
NoBounds == [none |-> TRUE]

(* ------------------- svg-path-commander (external) --------------------- *)
\* path data the engine parses but measures as a box with a non-finite
\* coordinate (a coordinate literal outside the range of a double)
NonFinitePath ==
  [valid |-> TRUE, x |-> 0, y |-> 0, x2 |-> 0, y2 |-> 0, nonFinite |-> TRUE]
NonFiniteBox == [nonFinite |-> TRUE]
IsFiniteBox(b) == "nonFinite" \notin DOMAIN b

\* getPathBBox(d): the box of the path, or an exception for unparsable data
GetPathBBox(d) ==
  IF d.valid
  THEN Ok(IF "nonFinite" \in DOMAIN d THEN NonFiniteBox
          ELSE [x |-> d.x, y |-> d.y, x2 |-> d.x2, y2 |-> d.y2])
  ELSE Throw("invalid path")

\* pathToString(transformPath(d, {translate: [dx, dy]}))
TransformPath(d, dx, dy) ==
  IF d.valid THEN Ok(PathData(TRUE, d.x + dx, d.y + dy, d.x2 + dx, d.y2 + dy))
  ELSE Throw("invalid path")

(* ------------------------- lib/parse-svg.ts ---------------------------- *)
nonVisualTags == {"defs", "mask", "filter", "symbol", "pattern"}

\* variant of TrackNonVisual: a flag instead of a stack, cleared by the
\* closing tag of any container
TrackNonVisualNoNesting(stack, tag) ==
  IF tag.name \in nonVisualTags /\ tag.kind = "open" THEN Append(stack, tag.name)
  ELSE IF tag.name \in nonVisualTags /\ tag.kind = "close" THEN <<>>
  ELSE stack

\* the two loops over nonVisualTags of the tag scanners: push on an opening
\* tag that is not self-closing, pop on a closing tag matching the top
TrackNonVisual(stack, tag) ==
  LET pushed == IF tag.name \in nonVisualTags /\ tag.kind = "open"
                THEN Append(stack, tag.name) ELSE stack
  IN  IF tag.name \in nonVisualTags /\ tag.kind = "close"
         /\ Len(pushed) > 0 /\ pushed[Len(pushed)] = tag.name
      THEN Front(pushed) ELSE pushed

\* tag.match(/\sd=.../) && /^<path[\s>]/i.test(tag)
IsPathWithD(tag) ==
  tag.name = "path" /\ tag.kind \in {"open", "self"} /\ tag.d # NoAttr

RECURSIVE ExtractVisualPathsFrom(_, _, _, _)
ExtractVisualPathsFrom(tags, pos, stack, paths) ==
  IF pos > Len(tags) THEN paths
  ELSE LET tag == tags[pos]
           stack2 == TrackNonVisual(stack, tag)
       IN  IF tag.kind = "text"
           THEN ExtractVisualPathsFrom(tags, pos + 1, stack, paths)
           ELSE ExtractVisualPathsFrom(tags, pos + 1, stack2,
                  IF stack2 = <<>> /\ IsPathWithD(tag)
                  THEN Append(paths, tag.d[1]) ELSE paths)

extractVisualPaths(svgElement) == ExtractVisualPathsFrom(svgElement, 1, <<>>, <<>>)

\* the <svg ...> ... </svg> span matched by /<svg[^>]*>[\s\S]*<\/svg>/i:
\* from the first <svg tag to the last </svg> after it; <<>> when no match
SvgElement(tags) ==
  LET i == FirstIdx(tags, IsSvgOpen)
      j == LastIdx(tags, IsSvgClose)
  IN  IF i = 0 \/ j < i THEN <<>> ELSE SubSeq(tags, i, j)

\* Number(token) of a token that is no number: a value outside the
\* coordinates of every document of the model
NaN == -1000000
isNaN(n) == n = NaN

\* a viewBox is reported when the first viewBox attribute of the element
\* holds exactly four numeric tokens
ParseViewBoxAttr(element) ==
  LET i == FirstIdx(element, HasViewBoxAttr)
  IN  IF i = 0 THEN NullViewBox
      ELSE LET parts == element[i].vb[1]
           IN  IF Len(parts) = 4 /\ \A k \in 1..Len(parts) : ~isNaN(parts[k])
               THEN ViewBox(parts[1], parts[2], parts[3], parts[4])
               ELSE NullViewBox

\* variant of parseSvg: a closing tag that closes nothing is an error
parseSvgStrict(doc) ==
  LET element == SvgElement(doc.tags)
  IN  IF element = <<>>
         \/ \E p \in 1..Len(element) :
              /\ element[p].kind = "close"
              /\ \A q \in 1..(p - 1) :
                   ~(element[q].name = element[p].name /\ element[q].kind = "open")
      THEN Throw("No <svg> element found in input string")
      ELSE Ok([element |-> element,
               viewBox |-> ParseViewBoxAttr(element),
               paths |-> extractVisualPaths(element),
               originalSvg |-> doc])

parseSvg(doc) ==
  IF \A i \in 1..Len(doc.tags) : doc.tags[i] = Text("")
  THEN Throw("svgString cannot be empty")
  ELSE LET element == SvgElement(doc.tags)
       IN  IF element = <<>>
           THEN Throw("No <svg> element found in input string")
           ELSE Ok([element |-> element,
                    viewBox |-> ParseViewBoxAttr(element),
                    paths |-> extractVisualPaths(element),
                    originalSvg |-> doc])

\* Matrix2D [a, b, c, d, e, f]
IDENTITY_MATRIX == <<1, 0, 0, 1, 0, 0>>

multiplyMatrices(m1, m2) ==
  <<m1[1] * m2[1] + m1[3] * m2[2],
    m1[2] * m2[1] + m1[4] * m2[2],
    m1[1] * m2[3] + m1[3] * m2[4],
    m1[2] * m2[3] + m1[4] * m2[4],
    m1[1] * m2[5] + m1[3] * m2[6] + m1[5],
    m1[2] * m2[5] + m1[4] * m2[6] + m1[6]>>

\* args[i] || dflt: a missing argument and the argument 0 both give dflt
ArgOr(args, i, dflt) == IF Len(args) >= i /\ args[i] # 0 THEN args[i] ELSE dflt

\* the matrix of one transform function (the switch of
\* parseTransformToMatrix); the functions modelled are those with integer
\* matrices: translate, scale and matrix
FunctionMatrix(f) ==
  IF f.fn = "translate" THEN <<1, 0, 0, 1, ArgOr(f.args, 1, 0), ArgOr(f.args, 2, 0)>>
  ELSE IF f.fn = "scale"
       THEN LET sx == ArgOr(f.args, 1, 1)
                sy == IF Len(f.args) > 1 THEN f.args[2] ELSE sx
            IN  <<sx, 0, 0, sy, 0, 0>>
  ELSE IF f.fn = "matrix" THEN f.args
  ELSE IDENTITY_MATRIX

KnownFunctions == {"translate", "scale", "rotate", "matrix", "skewX", "skewY"}

\* variant of parseTransformToMatrixFrom: each matrix is multiplied from the
\* left
RECURSIVE parseTransformToMatrixFromLeft(_, _)
parseTransformToMatrixFromLeft(fns, acc) ==
  IF fns = <<>> THEN acc
  ELSE parseTransformToMatrixFromLeft(Tail(fns),
         IF Head(fns).fn \in KnownFunctions /\ Head(fns).args # <<>>
         THEN multiplyMatrices(FunctionMatrix(Head(fns)), acc)
         ELSE acc)

\* a transform string is the list of its function calls; text the regular
\* expression does not match is not visited by the loop
RECURSIVE parseTransformToMatrixFrom(_, _)
parseTransformToMatrixFrom(fns, acc) ==
  IF fns = <<>> THEN acc
  ELSE parseTransformToMatrixFrom(Tail(fns),
         IF Head(fns).fn \in KnownFunctions /\ Head(fns).args # <<>>
         THEN multiplyMatrices(acc, FunctionMatrix(Head(fns)))
         ELSE acc)

parseTransformToMatrix(transformStr) ==
  parseTransformToMatrixFrom(transformStr, IDENTITY_MATRIX)

\* variant of TrackGroups: without the test !tag.endsWith('/>'), a
\* self-closing <g/> pushes its matrix
TrackGroupsPushSelfClosing(transformStack, tag) ==
  IF tag.name = "g" /\ tag.kind \in {"open", "self"}
  THEN Append(transformStack,
              IF tag.tf # NoAttr THEN parseTransformToMatrix(tag.tf[1])
              ELSE IDENTITY_MATRIX)
  ELSE IF tag.name = "g" /\ tag.kind = "close" /\ Len(transformStack) > 0
       THEN Front(transformStack)
       ELSE transformStack

\* the <g> branch of extractVisualPathsWithTransforms
TrackGroups(transformStack, tag) ==
  IF tag.name = "g" /\ tag.kind = "open"
  THEN Append(transformStack,
              IF tag.tf # NoAttr THEN parseTransformToMatrix(tag.tf[1])
              ELSE IDENTITY_MATRIX)
  ELSE IF tag.name = "g" /\ tag.kind = "close" /\ Len(transformStack) > 0
       THEN Front(transformStack)
       ELSE transformStack

\* variant of Accumulate: the stack is multiplied from its top downwards
RECURSIVE AccumulateInnermostFirst(_)
AccumulateInnermostFirst(transformStack) ==
  IF transformStack = <<>> THEN IDENTITY_MATRIX
  ELSE multiplyMatrices(transformStack[Len(transformStack)],
                        AccumulateInnermostFirst(Front(transformStack)))

RECURSIVE Accumulate(_)
Accumulate(transformStack) ==
  IF transformStack = <<>> THEN IDENTITY_MATRIX
  ELSE multiplyMatrices(Accumulate(Front(transformStack)),
                        transformStack[Len(transformStack)])

\* an <image> tag: x, y, width and height are absent (NoAttr) or hold the
\* number parseFloat reads from the attribute value
ImageTag(x, y, width, height, tf) ==
  [name |-> "image", kind |-> "self", vb |-> NoAttr, d |-> NoAttr, tf |-> tf,
   attrs |-> {}, x |-> x, y |-> y, width |-> width, height |-> height]

\* /^<image[\s>]/i.test(tag)
IsImage(tag) == tag.name = "image" /\ tag.kind \in {"open", "self"}

\* parseFloat(match?.[1] || '0')
ParseFloatOr0(attr) == IF attr = NoAttr THEN 0 ELSE attr[1]

\* `M${ix} ${iy}h${iw}v${ih}h${-iw}z`
RectPath(ix, iy, iw, ih) ==
  IF isNaN(ix) \/ isNaN(iy) THEN PathData(FALSE, 0, 0, 0, 0)
  ELSE PathData(TRUE, ix, iy, ix + iw, iy + ih)

\* variant of ImageRecords: without the test iw > 0 && ih > 0
ImageRecordsUntested(tag, accumulated) ==
  IF ~IsImage(tag) THEN <<>>
  ELSE LET iw == ParseFloatOr0(tag.width)
           ih == ParseFloatOr0(tag.height)
       IN  IF isNaN(iw) \/ isNaN(ih) THEN <<>>
           ELSE <<[d |-> RectPath(ParseFloatOr0(tag.x), ParseFloatOr0(tag.y), iw, ih),
                   matrix |-> IF tag.tf # NoAttr
                              THEN multiplyMatrices(accumulated, parseTransformToMatrix(tag.tf[1]))
                              ELSE accumulated]>>

\* the <image> branch of extractVisualPathsWithTransforms: the record the
\* tag adds, if any
ImageRecords(tag, accumulated) ==
  IF ~IsImage(tag) THEN <<>>
  ELSE LET ix == ParseFloatOr0(tag.x)
           iy == ParseFloatOr0(tag.y)
           iw == ParseFloatOr0(tag.width)
           ih == ParseFloatOr0(tag.height)
       IN  IF ~isNaN(iw) /\ iw > 0 /\ ~isNaN(ih) /\ ih > 0
           THEN <<[d |-> RectPath(ix, iy, iw, ih),
                   matrix |-> IF tag.tf # NoAttr
                              THEN multiplyMatrices(accumulated, parseTransformToMatrix(tag.tf[1]))
                              ELSE accumulated]>>
           ELSE <<>>

\* the scan loop
RECURSIVE ExtractWithTransformsFrom(_, _, _, _, _)
ExtractWithTransformsFrom(tags, pos, nonVisualStack, transformStack, results) ==
  IF pos > Len(tags) THEN results
  ELSE LET tag == tags[pos]
           ts == TrackGroups(transformStack, tag)
           nv == TrackNonVisual(nonVisualStack, tag)
           accumulated == Accumulate(ts)
           pathAccum == IF tag.tf # NoAttr
                        THEN multiplyMatrices(accumulated, parseTransformToMatrix(tag.tf[1]))
                        ELSE accumulated
       IN  IF tag.kind = "text"
           THEN ExtractWithTransformsFrom(tags, pos + 1, nonVisualStack, transformStack, results)
           ELSE ExtractWithTransformsFrom(tags, pos + 1, nv, ts,
                  IF nv # <<>> THEN results
                  ELSE (IF IsPathWithD(tag)
                        THEN Append(results, [d |-> tag.d[1], matrix |-> pathAccum])
                        ELSE results)
                       \o ImageRecords(tag, accumulated))

extractVisualPathsWithTransforms(svgElement) ==
  ExtractWithTransformsFrom(svgElement, 1, <<>>, <<>>, <<>>)

(* --------------------------- lib/bounds.ts ----------------------------- *)
\* boxes of the paths the engine can measure, in order; a failing path is
\* skipped (the catch inside the loop)
\* variant of MeasuredBoxes: no catch inside the loop, one failing path
\* leaves no box at all
MeasuredBoxesAbortOnFailure(paths) ==
  IF \E i \in 1..Len(paths) : ~GetPathBBox(paths[i]).ok THEN <<>>
  ELSE [i \in 1..Len(paths) |-> GetPathBBox(paths[i]).val]

RECURSIVE MeasuredBoxes(_)
MeasuredBoxes(paths) ==
  IF paths = <<>> THEN <<>>
  ELSE LET r == GetPathBBox(Head(paths))
       IN  (IF r.ok THEN <<r.val>> ELSE <<>>) \o MeasuredBoxes(Tail(paths))

RECURSIVE UnionBoxes(_)
UnionBoxes(boxes) ==
  IF Len(boxes) = 1 THEN Head(boxes)
  ELSE LET u == UnionBoxes(Tail(boxes))
           b == Head(boxes)
       IN  [x |-> Min(b.x, u.x), y |-> Min(b.y, u.y),
            x2 |-> Max(b.x2, u.x2), y2 |-> Max(b.y2, u.y2)]

\* an element of the paths array that is empty or only white space
BlankPath == [blank |-> TRUE]
IsBlank(p) == "blank" \in DOMAIN p

\* paths.filter((p) => p && p.trim())
ValidPaths(paths) == SelectSeq(paths, LAMBDA p : ~IsBlank(p))

\* the accumulators minX..maxY stay at +-Infinity when no box was measured,
\* and a box with a non-finite coordinate leaves one of them non-finite;
\* in both cases the isFinite test throws
getContentBounds(paths) ==
  IF paths = <<>> THEN Throw("paths array cannot be empty")
  ELSE IF ValidPaths(paths) = <<>> THEN Throw("no valid paths found")
  ELSE LET boxes == MeasuredBoxes(ValidPaths(paths))
       IN  IF boxes = <<>> \/ \E i \in 1..Len(boxes) : ~IsFiniteBox(boxes[i])
           THEN Throw("failed to calculate bounds for any paths")
           ELSE LET u == UnionBoxes(boxes)
                IN  Ok(BoundingBox(u.x, u.y, u.x2, u.y2))

\* the console.warn calls of getContentBounds: one for each path the engine
\* rejects
getContentBoundsWarnings(paths) ==
  LET failing == SelectSeq(ValidPaths(paths), LAMBDA p : ~GetPathBBox(p).ok)
  IN  [i \in 1..Len(failing) |-> <<"Failed to calculate bounds for path", failing[i]>>]

\* getTransformAwareBounds (the transform-aware bounds calculator): the
\* local box when the matrix is the identity, otherwise the enclosing box of
\* the four corners of the local box mapped through the matrix
MapPoint(m, x, y) == <<m[1] * x + m[3] * y + m[5], m[2] * x + m[4] * y + m[6]>>

\* variant of MappedBox: only the two extreme corners are mapped
MappedBoxTwoCorners(b, m) ==
  IF m = IDENTITY_MATRIX THEN b
  ELSE [x |-> MapPoint(m, b.x, b.y)[1], y |-> MapPoint(m, b.x, b.y)[2],
        x2 |-> MapPoint(m, b.x2, b.y2)[1], y2 |-> MapPoint(m, b.x2, b.y2)[2]]

MappedBox(b, m) ==
  IF m = IDENTITY_MATRIX THEN b
  ELSE LET c1 == MapPoint(m, b.x, b.y)
           c2 == MapPoint(m, b.x2, b.y)
           c3 == MapPoint(m, b.x2, b.y2)
           c4 == MapPoint(m, b.x, b.y2)
       IN  [x  |-> Min(Min(c1[1], c2[1]), Min(c3[1], c4[1])),
            y  |-> Min(Min(c1[2], c2[2]), Min(c3[2], c4[2])),
            x2 |-> Max(Max(c1[1], c2[1]), Max(c3[1], c4[1])),
            y2 |-> Max(Max(c1[2], c2[2]), Max(c3[2], c4[2]))]

\* the boxes of the records the engine can measure, each mapped through the
\* record's matrix; a failing record is skipped
RECURSIVE TransformedBoxes(_)
TransformedBoxes(records) ==
  IF records = <<>> THEN <<>>
  ELSE LET r == GetPathBBox(Head(records).d)
       IN  (IF r.ok THEN <<MappedBox(r.val, Head(records).matrix)>> ELSE <<>>)
           \o TransformedBoxes(Tail(records))

getTransformAwareBounds(records) ==
  IF records = <<>> THEN Throw("EmptyGeometryError")
  ELSE LET boxes == TransformedBoxes(records)
       IN  IF boxes = <<>> THEN Throw("DegenerateBoundsError")
           ELSE LET u == UnionBoxes(boxes)
                IN  Ok(BoundingBox(u.x, u.y, u.x2, u.y2))

(* ---------------------------- lib/crop.ts ------------------------------ *)
\* replace-or-insert of the viewBox attribute, shared by cropToContent and
\* normalizeViewBox: the first viewBox attribute of the string is replaced;
\* a string without one gets the attribute on its first <svg tag
SetViewBoxAttr(tags, parts) ==
  LET i == FirstIdx(tags, HasViewBoxAttr)
      k == FirstIdx(tags, IsSvgOpen)
  IN  IF i # 0 THEN [tags EXCEPT ![i].vb = <<parts>>]
      ELSE IF k # 0 THEN [tags EXCEPT ![k].vb = <<parts>>]
      ELSE tags

cropToContent(doc, b) ==
  Ok([doc EXCEPT !.tags = SetViewBoxAttr(doc.tags, <<b.x, b.y, b.width, b.height>>)])

(* -------------------------- lib/normalize.ts --------------------------- *)
\* result.replace(/(<svg[^>]*)\s+name=["'][^"']*["']/i, '$1'): the attribute
\* is removed from the first <svg tag that carries it
StripSvgAttr(tags, name) ==
  LET Carries(t) == IsSvgOpen(t) /\ name \in t.attrs
      i == FirstIdx(tags, Carries)
  IN  IF i = 0 THEN tags ELSE [tags EXCEPT ![i].attrs = @ \ {name}]

normalizeViewBox(doc, width, height) ==
  IF width <= 0 \/ height <= 0 THEN Throw("width and height must be positive")
  ELSE Ok([doc EXCEPT !.tags =
             StripSvgAttr(StripSvgAttr(StripSvgAttr(
               SetViewBoxAttr(doc.tags, <<0, 0, width, height>>),
               "width"), "height"), "preserveAspectRatio")])

(* -------------------------- lib/transform.ts --------------------------- *)
\* /<g\s[^>]*transform\s*=/i
HasGroupTransform(t) == t.name = "g" /\ t.kind \in {"open", "self"} /\ t.tf # NoAttr

\* variant of wrapWithTranslate: the group is closed before the first </svg>
wrapWithTranslateFirstClose(tags, dx, dy) ==
  LET i == FirstIdx(tags, IsSvgOpen)
      j == FirstIdx(tags, IsSvgClose)
  IN  IF i = 0 \/ j = 0 THEN tags
      ELSE SubSeq(tags, 1, i)
           \o <<Tag("g", "open", NoAttr, NoAttr, <<Translate(dx, dy)>>, {})>>
           \o SubSeq(tags, i + 1, j - 1)
           \o <<Close("g")>>
           \o SubSeq(tags, j, Len(tags))

wrapWithTranslate(tags, dx, dy) ==
  LET i == FirstIdx(tags, IsSvgOpen)
      j == LastIdx(tags, IsSvgClose)
  IN  IF i = 0 \/ j = 0 THEN tags
      ELSE SubSeq(tags, 1, i)
           \o <<Tag("g", "open", NoAttr, NoAttr, <<Translate(dx, dy)>>, {})>>
           \o SubSeq(tags, i + 1, j - 1)
           \o <<Close("g")>>
           \o SubSeq(tags, j, Len(tags))

\* variant of shiftAllPathDs: a replace without the g flag, only the first
\* d attribute is rewritten
shiftAllPathDsFirstOnly(tags, dx, dy) ==
  [i \in 1..Len(tags) |->
     IF tags[i].d = NoAttr \/ \E j \in 1..(i - 1) : tags[j].d # NoAttr THEN tags[i]
     ELSE LET r == TransformPath(tags[i].d[1], dx, dy)
          IN  IF r.ok THEN [tags[i] EXCEPT !.d = <<r.val>>] ELSE tags[i]]

\* variant of shiftAllPathDs: the rewrite stops at the first d attribute the
\* engine rejects
shiftAllPathDsStopAtFailure(tags, dx, dy) ==
  [i \in 1..Len(tags) |->
     IF tags[i].d = NoAttr
        \/ \E j \in 1..i : tags[j].d # NoAttr /\ ~TransformPath(tags[j].d[1], dx, dy).ok
     THEN tags[i]
     ELSE [tags[i] EXCEPT !.d = <<TransformPath(tags[i].d[1], dx, dy).val>>]]

\* `${prefix}${newPathData}"`: the prefix keeps the opening quote, the
\* closing quote is written as a double quote
RewriteD(tag, newPathData) ==
  IF "dq" \in DOMAIN tag
  THEN [tag EXCEPT !.d = <<newPathData>>, !.dq = <<@[1], "\"">>]
  ELSE [tag EXCEPT !.d = <<newPathData>>]

\* every d attribute of the string is rewritten by the engine; data the
\* engine rejects is left as it was
shiftAllPathDs(tags, dx, dy) ==
  [i \in 1..Len(tags) |->
     IF tags[i].d = NoAttr THEN tags[i]
     ELSE LET r == TransformPath(tags[i].d[1], dx, dy)
          IN  IF r.ok THEN RewriteD(tags[i], r.val) ELSE tags[i]]

\* the console.warn calls of shiftAllPathDs: one for each d attribute the
\* engine rejects
shiftAllPathDsWarnings(tags, dx, dy) ==
  LET failing == SelectSeq(tags, LAMBDA t : t.d # NoAttr /\ ~TransformPath(t.d[1], dx, dy).ok)
  IN  [i \in 1..Len(failing) |-> <<"Failed to transform path", failing[i].d[1]>>]

transformPathsToOrigin(doc, viewBox) ==
  IF viewBox.minX = 0 /\ viewBox.minY = 0 THEN Ok(doc)
  ELSE LET dx == 0 - viewBox.minX
           dy == 0 - viewBox.minY
       IN  IF \E i \in 1..Len(doc.tags) : HasGroupTransform(doc.tags[i])
           THEN Ok([doc EXCEPT !.tags = wrapWithTranslate(doc.tags, dx, dy)])
           ELSE Ok([doc EXCEPT !.tags = shiftAllPathDs(doc.tags, dx, dy)])

\* what a call of transformPathsToOrigin writes to the console
transformPathsToOriginWarnings(doc, viewBox) ==
  IF (viewBox.minX = 0 /\ viewBox.minY = 0)
     \/ \E i \in 1..Len(doc.tags) : HasGroupTransform(doc.tags[i])
  THEN <<>>
  ELSE shiftAllPathDsWarnings(doc.tags, 0 - viewBox.minX, 0 - viewBox.minY)

(* ------------------- lib/optimize.ts, lib/format.ts -------------------- *)
\* SVGO either rewrites the document or throws (rethrown by optimizeSvg as
\* 'Optimization failed: ...'); its rewrite is opaque and recorded as a mark
optimizeSvg(doc, svgoThrows) ==
  IF svgoThrows THEN Throw("Optimization failed: svgo")
  ELSE Ok([doc EXCEPT !.marks = Append(@, "svgo")])

\* the formatter pretty-prints or minifies, or fails
formatSvg(doc, minify, formatThrows) ==
  IF formatThrows THEN Throw("format")
  ELSE Ok([doc EXCEPT !.marks = Append(@, IF minify THEN "minified" ELSE "pretty")])

(* ------------------------ input documents ------------------------------ *)
\* values of the root viewBox attribute: absent, a window with an offset
\* origin, and a window at the origin
RootViewBoxes == {NoAttr, <<<<5, 5, 20, 20>>>>, <<<<0, 0, 20, 20>>>>}

OrdinaryPath == PathData(TRUE, 6, 7, 9, 9)
PathDatas == {OrdinaryPath,
              PathData(TRUE, 6, 7, 9, 7),     \* a horizontal line: height 0
              PathData(FALSE, 0, 0, 0, 0)}    \* data the engine rejects

Contents == {<<PathTag(d, NoAttr)>> : d \in PathDatas}
            \cup {<<Tag("rect", "self", NoAttr, NoAttr, NoAttr, {"width", "height"})>>}

\* one body element: bare content, a path inside a transformed group, or a
\* path inside <defs>
Elements ==
  Contents
  \cup {<<Tag("g", "open", NoAttr, NoAttr, <<Translate(2, 3)>>, {}),
          PathTag(OrdinaryPath, NoAttr), Close("g")>>,
        <<Open("defs"), PathTag(OrdinaryPath, NoAttr), Close("defs")>>}

Bodies == UNION {{Concat(es) : es \in [1..n -> Elements]} : n \in 0..MaxElems}

SvgDocs ==
  {Doc(<<Tag("svg", "open", vb, NoAttr, NoAttr,
            IF vb = NoAttr THEN {"width", "height"} ELSE {})>>
       \o body \o <<Close("svg")>>) :
     vb \in RootViewBoxes, body \in Bodies}

InputDocs ==
  SvgDocs \cup {Doc(<<>>), Doc(<<Text("not an svg")>>), Doc(<<Open("svg")>>)}

\* the options argument: an object holding any subset of the option keys
PartialOptions ==
  {f \in UNION {[S -> BOOLEAN] : S \in SUBSET OptionNames} :
     \/ Cardinality(OptionNames \ DOMAIN f) <= MaxOmitted
     \/ DOMAIN f = {}}

(* --------------------- components/SvgTool.vue -------------------------- *)
\* the n-th submitted input is a file (dropped or chosen) or the pasted
\* text; what the component shows is named after the input it comes from
DefaultName == [kind |-> "fixed.svg"]
PastedName == [kind |-> "pasted-fixed.svg"]
\* file.name.replace('.svg', '-fixed.svg')
FixedName(n) == [kind |-> "file", of |-> n]
\* result.svg and result.stats of the processSvg run on input n
SvgOf(n) == [svg |-> n]
StatsOf(n) == [stats |-> n]
NoSvg == [svg |-> 0]
NoStats == [stats |-> 0]

\* the initial values of the refs
ToolIdle ==
  /\ tool = [state |-> "empty", isDragging |-> FALSE, showPasteInput |-> FALSE,
             pasteInput |-> "", outputSvg |-> NoSvg, error |-> "", copied |-> FALSE,
             stats |-> NoStats, originalFileName |-> DefaultName]
  /\ tasks = [submitted |-> <<>>, reads |-> {}, runs |-> {}, timers |-> 0]

(* -------------------------- lib/process.ts ----------------------------- *)
NoDoc == [none |-> TRUE]
NoResult == [none |-> TRUE]
NoParsed == [none |-> TRUE]
NoPathsWarning == "No paths found in SVG - nothing to process"
\* no library function is being called directly
NoCall == [fn |-> "none"]
NoRet == [none |-> TRUE]

\* { ...DEFAULT_OPTIONS, ...options }
MergeOptions(given) ==
  [o \in OptionNames |-> IF o \in DOMAIN given THEN given[o] ELSE DEFAULT_OPTIONS[o]]

ProcessingResult(svg, success, errs, warns, before, after) ==
  [svg |-> svg, success |-> success, errors |-> errs, warnings |-> warns,
   stats |-> [viewBoxBefore |-> before, viewBoxAfter |-> after]]

BoundsViewBox(b) == ViewBox(b.x, b.y, b.width, b.height)
OrZero(vb) == IF vb = NullViewBox THEN ZeroViewBox ELSE vb

Ran(stage, in, out, ok) == [stage |-> stage, in |-> in, out |-> out, ok |-> ok]

Init ==
  /\ svgString \in InputDocs
  /\ options \in PartialOptions
  /\ opts = DEFAULT_OPTIONS
  /\ pc = "start"
  /\ processedSvg = NoDoc
  /\ parsed = NoParsed
  /\ viewBoxBefore = NullViewBox
  /\ bounds = NoBounds
  /\ currentViewBox = NullViewBox
  /\ errors = <<>>
  /\ warnings = <<>>
  /\ result = NoResult
  /\ trace = <<>>
  /\ call = NoCall
  /\ ret = NoRet
  /\ console = <<>>
  /\ ToolIdle

\* lines 430-433: the locals set up before the try block
Start ==
  /\ pc = "start"
  /\ opts' = MergeOptions(options)
  /\ errors' = <<>>
  /\ warnings' = <<>>
  /\ pc' = "parse"
  /\ UNCHANGED <<toolVars, callVars, console, svgString, options, processedSvg, viewBoxBefore, bounds,
                 currentViewBox, result, trace, parsed>>

\* variant of OuterCatch: the exception leaves processSvg
OuterCatchRethrows(msg) ==
  /\ pc' = "threw"
  /\ UNCHANGED <<errors, result>>

\* variant of OuterCatch: the catch returns the working document
OuterCatchReturnsWorking(msg) ==
  /\ errors' = Append(errors, <<"Processing failed", msg>>)
  /\ result' = ProcessingResult(processedSvg, FALSE, errors', warnings,
                                NullViewBox, ZeroViewBox)
  /\ pc' = "done"

\* the catch of the outer try block: the value processSvg returns when an
\* exception reaches it
OuterCatch(msg) ==
  /\ errors' = Append(errors, <<"Processing failed", msg>>)
  /\ result' = ProcessingResult(svgString, FALSE, errors', warnings,
                                NullViewBox, ZeroViewBox)
  /\ pc' = "done"

\* variant of Parse: no early return for a document without paths
ParseNoEarlyReturn ==
  /\ pc = "parse"
  /\ LET r == parseSvg(svgString)
     IN  /\ trace' = Append(trace, Ran("scan", svgString,
                              IF r.ok THEN r.val.originalSvg ELSE svgString, r.ok))
         /\ IF ~r.ok
            THEN /\ OuterCatch(r.msg)
                 /\ UNCHANGED <<processedSvg, viewBoxBefore, warnings, parsed>>
            ELSE /\ parsed' = r.val
                 /\ processedSvg' = r.val.originalSvg
                 /\ viewBoxBefore' = r.val.viewBox
                 /\ pc' = "bounds"
                 /\ UNCHANGED <<warnings, result, errors>>
  /\ UNCHANGED <<toolVars, callVars, console, svgString, options, opts, bounds, currentViewBox>>

\* Step 1 and the early return for a document without paths
Parse ==
  /\ pc = "parse"
  /\ LET r == parseSvg(svgString)
     IN  /\ trace' = Append(trace, Ran("scan", svgString,
                              IF r.ok THEN r.val.originalSvg ELSE svgString, r.ok))
         /\ IF ~r.ok
            THEN /\ OuterCatch(r.msg)
                 /\ UNCHANGED <<processedSvg, viewBoxBefore, warnings, parsed>>
            ELSE /\ parsed' = r.val
                 /\ processedSvg' = r.val.originalSvg
                 /\ viewBoxBefore' = r.val.viewBox
                 /\ IF r.val.paths = <<>>
                    THEN /\ warnings' = Append(warnings, <<NoPathsWarning, "">>)
                         /\ result' = ProcessingResult(processedSvg', TRUE, errors,
                                        warnings', viewBoxBefore', OrZero(viewBoxBefore'))
                         /\ pc' = "done"
                    ELSE /\ pc' = "bounds"
                         /\ UNCHANGED <<warnings, result>>
                 /\ UNCHANGED errors
  /\ UNCHANGED <<toolVars, callVars, console, svgString, options, opts, bounds, currentViewBox>>

\* Step 2 and the initial value of currentViewBox
Bounds ==
  /\ pc = "bounds"
  /\ LET r == getContentBounds(parsed.paths)
     IN  /\ trace' = Append(trace, Ran("bounds", processedSvg, processedSvg, r.ok))
         /\ IF ~r.ok
            THEN /\ errors' = Append(errors, <<"Failed to calculate bounds", r.msg>>)
                 /\ result' = ProcessingResult(processedSvg, FALSE, errors', warnings,
                                viewBoxBefore, OrZero(viewBoxBefore))
                 /\ pc' = "done"
                 /\ UNCHANGED <<bounds, currentViewBox>>
            ELSE /\ bounds' = r.val
                 /\ currentViewBox' = IF viewBoxBefore # NullViewBox THEN viewBoxBefore
                                      ELSE BoundsViewBox(r.val)
                 /\ pc' = "crop"
                 /\ UNCHANGED <<errors, result>>
  /\ console' = console \o getContentBoundsWarnings(parsed.paths)
  /\ UNCHANGED <<toolVars, callVars, svgString, options, opts, processedSvg, viewBoxBefore,
                 warnings, parsed>>

\* Step 3
Crop ==
  /\ pc = "crop"
  /\ IF opts.cropWhitespace
     THEN LET r == cropToContent(processedSvg, bounds)
          IN  /\ IF r.ok
                 THEN /\ processedSvg' = r.val
                      /\ currentViewBox' = BoundsViewBox(bounds)
                      /\ UNCHANGED warnings
                 ELSE /\ warnings' = Append(warnings, <<"Crop failed", r.msg>>)
                      /\ UNCHANGED <<processedSvg, currentViewBox>>
              /\ trace' = Append(trace, Ran("crop", processedSvg, processedSvg', r.ok))
     ELSE UNCHANGED <<processedSvg, currentViewBox, warnings, trace>>
  /\ pc' = "shift"
  /\ UNCHANGED <<toolVars, callVars, console, svgString, options, opts, viewBoxBefore, bounds, errors, result, parsed>>

\* variant of Shift: the call is given the parsed document, not the working one
ShiftFromOriginal ==
  /\ pc = "shift"
  /\ IF opts.transformToOrigin /\ (currentViewBox.minX # 0 \/ currentViewBox.minY # 0)
     THEN LET r == transformPathsToOrigin(parsed.originalSvg, currentViewBox)
          IN  /\ IF r.ok
                 THEN /\ processedSvg' = r.val
                      /\ UNCHANGED warnings
                 ELSE /\ warnings' = Append(warnings, <<"Transform failed", r.msg>>)
                      /\ UNCHANGED processedSvg
              /\ trace' = Append(trace, Ran("shift", parsed.originalSvg, processedSvg', r.ok))
              /\ console' = console
                              \o transformPathsToOriginWarnings(parsed.originalSvg, currentViewBox)
     ELSE UNCHANGED <<processedSvg, warnings, trace, console>>
  /\ pc' = "normalize"
  /\ UNCHANGED <<toolVars, callVars, svgString, options, opts, viewBoxBefore, bounds, currentViewBox,
                 errors, result, parsed>>

\* Step 4
Shift ==
  /\ pc = "shift"
  /\ IF opts.transformToOrigin /\ (currentViewBox.minX # 0 \/ currentViewBox.minY # 0)
     THEN LET r == transformPathsToOrigin(processedSvg, currentViewBox)
          IN  /\ IF r.ok
                 THEN /\ processedSvg' = r.val
                      /\ UNCHANGED warnings
                 ELSE /\ warnings' = Append(warnings, <<"Transform failed", r.msg>>)
                      /\ UNCHANGED processedSvg
              /\ trace' = Append(trace, Ran("shift", processedSvg, processedSvg', r.ok))
              /\ console' = console
                              \o transformPathsToOriginWarnings(processedSvg, currentViewBox)
     ELSE UNCHANGED <<processedSvg, warnings, trace, console>>
  /\ pc' = "normalize"
  /\ UNCHANGED <<toolVars, callVars, svgString, options, opts, viewBoxBefore, bounds, currentViewBox,
                 errors, result, parsed>>

\* variant of Normalize: no try block of its own around the call
NormalizeUncaught ==
  /\ pc = "normalize"
  /\ IF opts.normalizeViewBox
     THEN LET r == normalizeViewBox(processedSvg, bounds.width, bounds.height)
          IN  /\ IF r.ok
                 THEN /\ processedSvg' = r.val
                      /\ currentViewBox' = ViewBox(0, 0, bounds.width, bounds.height)
                      /\ pc' = "optimize"
                      /\ UNCHANGED <<warnings, errors, result>>
                 ELSE /\ OuterCatch(r.msg)
                      /\ UNCHANGED <<processedSvg, currentViewBox, warnings>>
              /\ trace' = Append(trace, Ran("normalize", processedSvg, processedSvg', r.ok))
     ELSE /\ pc' = "optimize"
          /\ UNCHANGED <<processedSvg, currentViewBox, warnings, trace, errors, result>>
  /\ UNCHANGED <<toolVars, callVars, console, svgString, options, opts, viewBoxBefore, bounds, parsed>>

\* variant of Normalize: currentViewBox is assigned before the call
NormalizeSetsViewBoxFirst ==
  /\ pc = "normalize"
  /\ IF opts.normalizeViewBox
     THEN LET r == normalizeViewBox(processedSvg, bounds.width, bounds.height)
          IN  /\ currentViewBox' = ViewBox(0, 0, bounds.width, bounds.height)
              /\ IF r.ok
                 THEN /\ processedSvg' = r.val
                      /\ UNCHANGED warnings
                 ELSE /\ warnings' = Append(warnings, <<"Normalize failed", r.msg>>)
                      /\ UNCHANGED processedSvg
              /\ trace' = Append(trace, Ran("normalize", processedSvg, processedSvg', r.ok))
     ELSE UNCHANGED <<processedSvg, currentViewBox, warnings, trace>>
  /\ pc' = "optimize"
  /\ UNCHANGED <<toolVars, callVars, console, svgString, options, opts, viewBoxBefore, bounds, errors, result, parsed>>

\* Step 5
Normalize ==
  /\ pc = "normalize"
  /\ IF opts.normalizeViewBox
     THEN LET r == normalizeViewBox(processedSvg, bounds.width, bounds.height)
          IN  /\ IF r.ok
                 THEN /\ processedSvg' = r.val
                      /\ currentViewBox' = ViewBox(0, 0, bounds.width, bounds.height)
                      /\ UNCHANGED warnings
                 ELSE /\ warnings' = Append(warnings, <<"Normalize failed", r.msg>>)
                      /\ UNCHANGED <<processedSvg, currentViewBox>>
              /\ trace' = Append(trace, Ran("normalize", processedSvg, processedSvg', r.ok))
     ELSE UNCHANGED <<processedSvg, currentViewBox, warnings, trace>>
  /\ pc' = "optimize"
  /\ UNCHANGED <<toolVars, callVars, console, svgString, options, opts, viewBoxBefore, bounds, errors, result, parsed>>

\* variant of Optimize: the failure is pushed onto errors
OptimizeRecordsError ==
  /\ pc = "optimize"
  /\ IF opts.optimize
     THEN \E svgoThrows \in BOOLEAN :
            LET r == optimizeSvg(processedSvg, svgoThrows)
            IN  /\ IF r.ok
                   THEN /\ processedSvg' = r.val
                        /\ UNCHANGED errors
                   ELSE /\ errors' = Append(errors, <<"Optimization failed", r.msg>>)
                        /\ UNCHANGED processedSvg
                /\ trace' = Append(trace, Ran("optimize", processedSvg, processedSvg', r.ok))
     ELSE UNCHANGED <<processedSvg, errors, trace>>
  /\ pc' = "format"
  /\ UNCHANGED <<toolVars, callVars, console, svgString, options, opts, viewBoxBefore, bounds, currentViewBox,
                 warnings, result, parsed>>

\* Step 6; whether SVGO throws on the document is its own business
Optimize ==
  /\ pc = "optimize"
  /\ IF opts.optimize
     THEN \E svgoThrows \in BOOLEAN :
            LET r == optimizeSvg(processedSvg, svgoThrows)
            IN  /\ IF r.ok
                   THEN /\ processedSvg' = r.val
                        /\ UNCHANGED warnings
                   ELSE /\ warnings' = Append(warnings, <<"Optimization failed", r.msg>>)
                        /\ UNCHANGED processedSvg
                /\ trace' = Append(trace, Ran("optimize", processedSvg, processedSvg', r.ok))
     ELSE UNCHANGED <<processedSvg, warnings, trace>>
  /\ pc' = "format"
  /\ UNCHANGED <<toolVars, callVars, console, svgString, options, opts, viewBoxBefore, bounds, currentViewBox,
                 errors, result, parsed>>

\* Step 7 and the final return
Format ==
  /\ pc = "format"
  /\ \E formatThrows \in BOOLEAN :
       LET r == formatSvg(processedSvg, opts.minify, formatThrows)
       IN  /\ IF r.ok
              THEN /\ processedSvg' = r.val
                   /\ UNCHANGED warnings
              ELSE /\ warnings' = Append(warnings, <<"Formatting failed", r.msg>>)
                   /\ UNCHANGED processedSvg
           /\ trace' = Append(trace, Ran("format", processedSvg, processedSvg', r.ok))
  /\ result' = ProcessingResult(processedSvg', TRUE, errors, warnings',
                                viewBoxBefore, currentViewBox)
  /\ pc' = "done"
  /\ UNCHANGED <<toolVars, callVars, console, svgString, options, opts, viewBoxBefore, bounds, currentViewBox,
                 errors, parsed>>

Next == Start \/ Parse \/ Bounds \/ Crop \/ Shift \/ Normalize \/ Optimize \/ Format

Spec == Init /\ [][Next]_vars

(* ======================================================================= *)
(* Direct calls of the library functions: one call per behaviour, its      *)
(* arguments drawn from the sets below.                                     *)
(* ======================================================================= *)
\* largest number of elements in the body of a document handed to a function
MaxBody == 2

OtherPath == PathData(TRUE, 10, 12, 14, 15)
RejectedPath == PathData(FALSE, 0, 0, 0, 0)
GroupTag(kind, tf) == Tag("g", kind, NoAttr, NoAttr, tf, {})

\* body elements of the documents given to transformPathsToOrigin
TransformElements ==
  {<<PathTag(OrdinaryPath, NoAttr)>>,
   <<PathTag(RejectedPath, NoAttr)>>,
   <<PathTag(OrdinaryPath, <<Translate(2, 3)>>)>>,
   <<PathTag(OrdinaryPath, <<<<[fn |-> "scale", args |-> <<2>>]>>>>)>>,
   <<SingleQuotedPathTag(OtherPath)>>,
   <<Open("defs"), PathTag(OtherPath, NoAttr), Close("defs")>>,
   <<GroupTag("open", <<Translate(2, 3)>>), PathTag(OrdinaryPath, NoAttr), Close("g")>>,
   <<GroupTag("open", NoAttr), PathTag(OtherPath, NoAttr), Close("g")>>,
   <<GroupTag("self", <<Translate(2, 3)>>)>>,
   <<Open("svg"), PathTag(OtherPath, NoAttr), Close("svg")>>}

BodiesOf(elements) ==
  UNION {{Concat(es) : es \in [1..n -> elements]} : n \in 0..MaxBody}

\* a document: an optional prolog, the root element and its body
RootedDocs(rootTags, bodies) ==
  {Doc(prolog \o <<root>> \o body \o <<Close("svg")>>) :
     prolog \in {<<>>, <<Text("<?xml?>")>>}, root \in rootTags, body \in bodies}

RootTag(vb, attrs) == Tag("svg", "open", vb, NoAttr, NoAttr, attrs)

TransformCalls ==
  {[fn |-> "transformPathsToOrigin", svgString |-> doc, viewBox |-> vb] :
     doc \in RootedDocs({RootTag(<<<<5, 5, 20, 20>>>>, {})}, BodiesOf(TransformElements)),
     vb \in {ViewBox(5, 5, 20, 20), ViewBox(-4, 0, 20, 20), ViewBox(0, 0, 20, 20)}}

\* longest tag sequence of containers and paths given to a scan
MaxScanTags == 4
\* longest tag sequence of groups and paths given to a scan
MaxGroupTags == 4

Scale(sx) == <<[fn |-> "scale", args |-> <<sx>>]>>

ContainerTags ==
  {Open("defs"), Close("defs"), Open("mask"), Close("mask"),
   Tag("defs", "self", NoAttr, NoAttr, NoAttr, {}),
   PathTag(OrdinaryPath, NoAttr)}

GroupTags ==
  {GroupTag("open", <<Translate(10, 20)>>), GroupTag("open", <<Scale(2)>>),
   GroupTag("open", NoAttr), GroupTag("self", <<Translate(10, 20)>>), Close("g"),
   PathTag(OrdinaryPath, NoAttr), PathTag(OtherPath, <<Translate(30, 40)>>)}

SeqsOf(S, n) == UNION {[1..k -> S] : k \in 0..n}

\* <svg><g transform="translate(10, 20)"><g transform="translate(30, 40)">
\* <path d="M 0 0 L 5 5"/></g></g></svg>
NestedTranslations ==
  <<Open("svg"), GroupTag("open", <<Translate(10, 20)>>),
    GroupTag("open", <<Translate(30, 40)>>), PathTag(PathData(TRUE, 0, 0, 5, 5), NoAttr),
    Close("g"), Close("g"), Close("svg")>>

\* longer sequences mixing containers and groups
MixedSequences ==
  {NestedTranslations,
   <<Open("defs"), Open("mask"), PathTag(OtherPath, NoAttr), Close("mask"),
     Close("defs"), PathTag(OrdinaryPath, NoAttr)>>,
   <<GroupTag("open", <<Scale(2)>>), Open("defs"), GroupTag("open", <<Translate(10, 20)>>),
     PathTag(OrdinaryPath, NoAttr), Close("g"), Close("defs"),
     PathTag(OtherPath, <<Translate(30, 40)>>), Close("g")>>,
   <<Open("defs"), GroupTag("open", <<Translate(10, 20)>>), Close("defs"),
     PathTag(OrdinaryPath, NoAttr)>>,
   <<Open("pattern"), Open("g"), Open("symbol"), Close("symbol"), Close("g"),
     PathTag(OrdinaryPath, NoAttr), Close("pattern"), Open("filter"), Close("filter"),
     PathTag(OtherPath, NoAttr)>>}

\* longest tag sequence of images, groups and containers given to a scan
MaxImageTags == 2

\* <image> tags with and without position, with a width or height that is
\* zero, negative, absent or no number, and with a transform of their own
ImageTags ==
  {ImageTag(<<2>>, <<3>>, <<10>>, <<5>>, NoAttr),
   ImageTag(NoAttr, NoAttr, <<10>>, <<5>>, <<Translate(30, 40)>>),
   ImageTag(<<2>>, <<3>>, <<0>>, <<5>>, NoAttr),
   ImageTag(<<2>>, <<3>>, <<10>>, <<-5>>, NoAttr),
   ImageTag(<<2>>, <<3>>, NoAttr, <<5>>, NoAttr),
   ImageTag(<<2>>, <<3>>, <<10>>, <<NaN>>, NoAttr),
   GroupTag("open", <<Scale(2)>>), Close("g"), Open("defs"), Close("defs")}

ScanCalls ==
  {[fn |-> f, svgElement |-> tags] :
     f \in {"extractVisualPaths", "extractVisualPathsWithTransforms"},
     tags \in SeqsOf(ContainerTags, MaxScanTags) \cup SeqsOf(GroupTags, MaxGroupTags)
               \cup MixedSequences}
  \cup {[fn |-> "extractVisualPathsWithTransforms", svgElement |-> tags] :
          tags \in SeqsOf(ImageTags, MaxImageTags)}

\* longest list of functions in a transform string
MaxFunctions == 2

ArgValues == {0, 2}

\* translate and scale with one and with two arguments, a matrix, text that
\* names no transform function, and a function without arguments
TransformFunctions ==
  {[fn |-> f, args |-> a] :
     f \in {"translate", "scale"},
     a \in {<<x>> : x \in ArgValues} \cup {<<x, y>> : x, y \in ArgValues}}
  \cup {[fn |-> "matrix", args |-> <<1, 2, 3, 4, 5, 6>>],
        [fn |-> "foo", args |-> <<7>>],
        [fn |-> "translate", args |-> <<>>]}

TransformStringCalls ==
  {[fn |-> "parseTransformToMatrix", transformStr |-> fns] :
     fns \in SeqsOf(TransformFunctions, MaxFunctions)}

\* longest paths array given to getContentBounds
MaxPaths == 3
\* longest record array given to getTransformAwareBounds
MaxRecords == 2

TallPath == PathData(TRUE, 1, 8, 7, 20)
\* M 10 10 L 20 20
DiagonalPath == PathData(TRUE, 10, 10, 20, 20)

BoundsCalls ==
  {[fn |-> "getContentBounds", paths |-> ps] :
     ps \in SeqsOf({OrdinaryPath, TallPath, RejectedPath, NonFinitePath, BlankPath},
                   MaxPaths)}

\* identity, scale(2), translate(50, 50) and a quarter turn
RecordMatrices ==
  {IDENTITY_MATRIX, <<2, 0, 0, 2, 0, 0>>, <<1, 0, 0, 1, 50, 50>>, <<0, 1, -1, 0, 0, 0>>}

TransformAwareCalls ==
  {[fn |-> "getTransformAwareBounds", paths |-> rs] :
     rs \in SeqsOf({[d |-> d, matrix |-> m] :
                      d \in {DiagonalPath, TallPath, RejectedPath}, m \in RecordMatrices},
                   MaxRecords)}

\* a nested element with a viewBox of its own, and a nested <svg> with its
\* own size and viewBox
SymbolElement ==
  <<Tag("symbol", "open", <<<<0, 0, 24, 24>>>>, NoAttr, NoAttr, {}),
    PathTag(OtherPath, NoAttr), Close("symbol")>>
NestedSvgElement ==
  <<Tag("svg", "open", <<<<1, 1, 8, 8>>>>, NoAttr, NoAttr, {"width", "height"}),
    PathTag(OtherPath, NoAttr), Close("svg")>>

\* values of the root viewBox attribute given to parseSvg: absent, valid,
\* three tokens, five tokens, "invalid", a token that is no number, and
\* windows of width or height zero or negative
ParsedViewBoxes ==
  {NoAttr, <<<<5, 5, 20, 20>>>>, <<<<0, 0, 20>>>>, <<<<0, 0, 20, 20, 1>>>>,
   <<<<NaN>>>>, <<<<0, 0, NaN, 20>>>>,
   <<<<0, 0, 0, 10>>>>, <<<<0, 0, -5, 10>>>>, <<<<0, 0, 10, -5>>>>}

\* longest body of unbalanced tags given to parseSvg
MaxStrayTags == 3

\* bodies in which closing tags arrive with nothing open and opening tags
\* are never closed
StrayTags ==
  {Close("g"), Close("defs"), Open("defs"), GroupTag("open", <<Translate(2, 3)>>),
   PathTag(OrdinaryPath, NoAttr), PathTag(OtherPath, NoAttr)}

ParseCalls ==
  {[fn |-> "parseSvg", svgString |-> doc] :
     doc \in RootedDocs({RootTag(vb, {}) : vb \in ParsedViewBoxes},
                        BodiesOf({<<PathTag(OrdinaryPath, NoAttr)>>, SymbolElement}))
              \cup RootedDocs({RootTag(NoAttr, {})}, SeqsOf(StrayTags, MaxStrayTags))
              \cup {Doc(<<Text("")>>), Doc(<<Text("not an svg")>>),
                    Doc(<<Open("div"), Close("div")>>),
                    Doc(<<Open("svg"), PathTag(OrdinaryPath, NoAttr)>>)}}

RootAttrs ==
  {{}, {"fill"}, {"width", "height"}, {"width", "height", "preserveAspectRatio", "fill"}}

NormalizeCalls ==
  {[fn |-> "normalizeViewBox", svgString |-> doc, width |-> wh[1], height |-> wh[2]] :
     doc \in RootedDocs({RootTag(vb, attrs) :
                           vb \in {NoAttr, <<<<5, 5, 20, 20>>>>}, attrs \in RootAttrs},
                        BodiesOf({<<PathTag(OrdinaryPath, NoAttr)>>, SymbolElement,
                                  NestedSvgElement})),
     wh \in {<<10, 12>>, <<0, 12>>, <<10, -1>>}}

\* no processSvg run is in progress
RunIdle ==
  /\ svgString = Doc(<<>>)
  /\ options = DEFAULT_OPTIONS
  /\ opts = DEFAULT_OPTIONS
  /\ pc = "idle"
  /\ processedSvg = NoDoc
  /\ parsed = NoParsed
  /\ viewBoxBefore = NullViewBox
  /\ bounds = NoBounds
  /\ currentViewBox = NullViewBox
  /\ errors = <<>>
  /\ warnings = <<>>
  /\ result = NoResult
  /\ trace = <<>>

LibInit ==
  /\ RunIdle
  /\ \/ call \in TransformCalls
     \/ call \in ScanCalls
     \/ call \in BoundsCalls
     \/ call \in TransformAwareCalls
     \/ call \in ParseCalls
     \/ call \in NormalizeCalls
     \/ call \in TransformStringCalls
  /\ ret = NoRet
  /\ console = <<>>
  /\ ToolIdle

CallTransformPathsToOrigin ==
  /\ call.fn = "transformPathsToOrigin"
  /\ ret = NoRet
  /\ ret' = transformPathsToOrigin(call.svgString, call.viewBox)
  /\ console' = console \o transformPathsToOriginWarnings(call.svgString, call.viewBox)
  /\ UNCHANGED <<toolVars, call, runVars>>

CallExtractVisualPaths ==
  /\ call.fn = "extractVisualPaths"
  /\ ret = NoRet
  /\ ret' = Ok(extractVisualPaths(call.svgElement))
  /\ UNCHANGED <<toolVars, call, console, runVars>>

CallExtractVisualPathsWithTransforms ==
  /\ call.fn = "extractVisualPathsWithTransforms"
  /\ ret = NoRet
  /\ ret' = Ok(extractVisualPathsWithTransforms(call.svgElement))
  /\ UNCHANGED <<toolVars, call, console, runVars>>

CallGetContentBounds ==
  /\ call.fn = "getContentBounds"
  /\ ret = NoRet
  /\ ret' = getContentBounds(call.paths)
  /\ console' = console \o getContentBoundsWarnings(call.paths)
  /\ UNCHANGED <<toolVars, call, runVars>>

CallGetTransformAwareBounds ==
  /\ call.fn = "getTransformAwareBounds"
  /\ ret = NoRet
  /\ ret' = getTransformAwareBounds(call.paths)
  /\ UNCHANGED <<toolVars, call, console, runVars>>

CallParseSvg ==
  /\ call.fn = "parseSvg"
  /\ ret = NoRet
  /\ ret' = parseSvg(call.svgString)
  /\ UNCHANGED <<toolVars, call, console, runVars>>

CallNormalizeViewBox ==
  /\ call.fn = "normalizeViewBox"
  /\ ret = NoRet
  /\ ret' = normalizeViewBox(call.svgString, call.width, call.height)
  /\ UNCHANGED <<toolVars, call, console, runVars>>

CallParseTransformToMatrix ==
  /\ call.fn = "parseTransformToMatrix"
  /\ ret = NoRet
  /\ ret' = Ok(parseTransformToMatrix(call.transformStr))
  /\ UNCHANGED <<toolVars, call, console, runVars>>

LibNext ==
  \/ CallParseTransformToMatrix
  \/ CallParseSvg
  \/ CallNormalizeViewBox
  \/ CallTransformPathsToOrigin
  \/ CallExtractVisualPaths
  \/ CallExtractVisualPathsWithTransforms
  \/ CallGetContentBounds
  \/ CallGetTransformAwareBounds

LibSpec == LibInit /\ [][LibNext]_vars

(* ======================================================================= *)
(* The SvgTool component: user events and asynchronous completions         *)
(* ======================================================================= *)
\* nothing of the pipeline or of the library harness moves while the
\* component is exercised
ToolFrame == UNCHANGED <<runVars, callVars, console>>

\* contents of the paste textarea: empty, whitespace only, an SVG text
PasteTexts == {"", " ", "<svg/>"}

\* pasteInput.trim() is non-empty
Trimmed(text) == text \notin {"", " "}

\* the sections of the template rendered in each state (v-if chain)
Rendered(section) == tool.state = section

\* the id the next submitted input gets
NextInput == Len(tasks.submitted) + 1

\* originalFileName as the handler of input n sets it
NameOf(n) == IF tasks.submitted[n] = "paste" THEN PastedName ELSE FixedName(n)

\* lines 208-211: processInput up to its await, for input n
BeginProcessing(n) ==
  /\ tool' = [tool EXCEPT !.state = "processing", !.error = "", !.stats = NoStats]
  /\ tasks' = [tasks EXCEPT !.reads = @ \ {n}, !.runs = @ \cup {n}]

\* the body shared by handleFileUpload and handleDrop once a file is
\* accepted: the name is set and a FileReader is started
StartRead(t) ==
  /\ tool' = [t EXCEPT !.originalFileName = FixedName(NextInput)]
  /\ tasks' = [tasks EXCEPT !.submitted = Append(@, "file"),
                            !.reads = @ \cup {NextInput}]

\* @dragover on the drop zone
DragOver ==
  /\ Rendered("empty")
  /\ tool' = [tool EXCEPT !.isDragging = TRUE]
  /\ UNCHANGED tasks
  /\ ToolFrame

\* @dragleave on the drop zone
DragLeave ==
  /\ Rendered("empty")
  /\ tool' = [tool EXCEPT !.isDragging = FALSE]
  /\ UNCHANGED tasks
  /\ ToolFrame

\* handleFileUpload with a chosen file
HandleFileUpload ==
  /\ Rendered("empty")
  /\ NextInput <= MaxSubmissions
  /\ StartRead(tool)
  /\ ToolFrame

\* handleDrop with a file that is, or is not, an SVG by name or type
HandleDrop ==
  /\ Rendered("empty")
  /\ \E isSvg \in BOOLEAN :
       IF isSvg
       THEN /\ NextInput <= MaxSubmissions
            /\ StartRead([tool EXCEPT !.isDragging = FALSE])
       ELSE /\ tool' = [tool EXCEPT !.isDragging = FALSE,
                                    !.error = "Please drop a valid SVG file",
                                    !.state = "error"]
            /\ UNCHANGED tasks
  /\ ToolFrame

\* reader.onload of the read of input n, with empty or non-empty content
ReaderLoad ==
  /\ \E n \in tasks.reads : \E content \in BOOLEAN :
       IF content
       THEN BeginProcessing(n)
       ELSE /\ tasks' = [tasks EXCEPT !.reads = @ \ {n}]
            /\ UNCHANGED tool
  /\ ToolFrame

\* the paste toggle button
TogglePaste ==
  /\ Rendered("empty")
  /\ tool' = [tool EXCEPT !.showPasteInput = ~@]
  /\ UNCHANGED tasks
  /\ ToolFrame

\* handlePaste with a clipboard text that includes '<svg'
HandlePaste ==
  /\ Rendered("empty")
  /\ tool.showPasteInput
  /\ tool' = [tool EXCEPT !.pasteInput = "<svg/>"]
  /\ UNCHANGED tasks
  /\ ToolFrame

\* typing in the textarea bound to pasteInput
EditPaste ==
  /\ Rendered("empty")
  /\ tool.showPasteInput
  /\ \E text \in PasteTexts \ {tool.pasteInput} :
       tool' = [tool EXCEPT !.pasteInput = text]
  /\ UNCHANGED tasks
  /\ ToolFrame

\* processFromPaste, whose button is rendered when the text is not blank
ProcessFromPaste ==
  /\ Rendered("empty")
  /\ tool.showPasteInput
  /\ Trimmed(tool.pasteInput)
  /\ NextInput <= MaxSubmissions
  /\ tool' = [tool EXCEPT !.originalFileName = PastedName,
                          !.state = "processing", !.error = "", !.stats = NoStats]
  /\ tasks' = [tasks EXCEPT !.submitted = Append(@, "paste"),
                            !.runs = @ \cup {NextInput}]
  /\ ToolFrame

\* lines 213-234: processInput after its await, for the run on input n
RunCompletes ==
  /\ \E n \in tasks.runs : \E outcome \in {"success", "failure", "throws"} :
       /\ tool' = IF outcome = "success"
                  THEN [tool EXCEPT !.outputSvg = SvgOf(n), !.stats = StatsOf(n),
                                    !.state = "result"]
                  ELSE [tool EXCEPT !.error = outcome, !.state = "error"]
       /\ tasks' = [tasks EXCEPT !.runs = @ \ {n}]
  /\ ToolFrame

\* copyToClipboard, whose write succeeds or is refused
CopyToClipboard ==
  /\ Rendered("result")
  /\ tool.outputSvg # NoSvg
  /\ \E written \in BOOLEAN :
       IF written
       THEN /\ tasks.timers < MaxTimers
            /\ tool' = [tool EXCEPT !.copied = TRUE]
            /\ tasks' = [tasks EXCEPT !.timers = @ + 1]
       ELSE /\ tool' = [tool EXCEPT !.error = "Failed to copy to clipboard"]
            /\ UNCHANGED tasks
  /\ ToolFrame

\* the 2000 ms timeout set by copyToClipboard
CopiedTimeout ==
  /\ tasks.timers > 0
  /\ tool' = [tool EXCEPT !.copied = FALSE]
  /\ tasks' = [tasks EXCEPT !.timers = @ - 1]
  /\ ToolFrame

\* reset, offered with a result and with an error
reset ==
  /\ Rendered("result") \/ Rendered("error")
  /\ tool' = [tool EXCEPT !.state = "empty", !.outputSvg = NoSvg, !.error = "",
                          !.stats = NoStats, !.pasteInput = "",
                          !.showPasteInput = FALSE,
                          !.originalFileName = DefaultName]
  /\ UNCHANGED tasks
  /\ ToolFrame

ToolInit ==
  /\ RunIdle
  /\ call = NoCall
  /\ ret = NoRet
  /\ console = <<>>
  /\ ToolIdle

ToolNext ==
  \/ DragOver
  \/ DragLeave
  \/ HandleFileUpload
  \/ HandleDrop
  \/ ReaderLoad
  \/ TogglePaste
  \/ HandlePaste
  \/ EditPaste
  \/ ProcessFromPaste
  \/ RunCompletes
  \/ CopyToClipboard
  \/ CopiedTimeout
  \/ reset

ToolSpec == ToolInit /\ [][ToolNext]_vars

(* ======================================================================= *)
(* Properties of processSvg                                                *)
(* ======================================================================= *)
Stages == <<"scan", "bounds", "crop", "shift", "normalize", "optimize", "format">>

StageRan(s)    == \E i \in 1..Len(trace) : trace[i].stage = s
StageOk(s)     == \E i \in 1..Len(trace) : trace[i].stage = s /\ trace[i].ok
StageFailed(s) == \E i \in 1..Len(trace) : trace[i].stage = s /\ ~trace[i].ok

\* no root element can be located in the input: no <svg tag followed by </svg>
NoRoot(doc) ==
  ~ \E i, j \in 1..Len(doc.tags) :
      i < j /\ IsSvgOpen(doc.tags[i]) /\ IsSvgClose(doc.tags[j])

IsProcessingResult(r) ==
  /\ DOMAIN r = {"svg", "success", "errors", "warnings", "stats"}
  /\ r.success \in BOOLEAN
  /\ DOMAIN r.svg = {"tags", "marks"}
  /\ DOMAIN r.stats = {"viewBoxBefore", "viewBoxAfter"}

\* C1: processSvg never throws: whichever stage fails, control stays inside
\* the function until it returns a ProcessingResult, and a run that failed
\* reports it in result.errors.
C1_NeverThrows ==
  /\ pc \in {"start", "parse", "bounds", "crop", "shift", "normalize",
             "optimize", "format", "done"}
  /\ pc = "done" => /\ IsProcessingResult(result)
                    /\ ~result.success => result.errors # <<>>

C1_Witness ==
  /\ pc = "done"
  /\ NoRoot(svgString)
  /\ StageFailed("scan")
  /\ result.errors # <<>>

\* C2: a run ends with success = false only when no root element was found
\* or the bounds computation failed; once the bounds stage has succeeded the
\* run ends with success = true whatever later stages fail.
C2_FailedOnlyBeforeBounds ==
  pc = "done" =>
    /\ ~result.success => (NoRoot(svgString) \/ StageFailed("bounds"))
    /\ StageOk("bounds") => result.success

C2_Witness ==
  /\ pc = "done"
  /\ StageOk("bounds")
  /\ StageFailed("normalize")
  /\ StageFailed("optimize")
  /\ StageFailed("format")
  /\ result.success

\* C3: when parsing or the bounds computation fails, the result has
\* success = false and result.svg is exactly the input string.
C3_FailureReturnsInput ==
  (pc = "done" /\ (NoRoot(svgString) \/ StageFailed("bounds"))) =>
    /\ ~result.success
    /\ result.svg = svgString

C3_Witness ==
  /\ pc = "done"
  /\ StageFailed("scan")
  /\ svgString.tags # <<>>
  /\ result.svg = svgString

StageIdx(s) == CHOOSE i \in 1..Len(Stages) : Stages[i] = s
LaterStages == {"crop", "shift", "normalize", "optimize", "format"}
StageWarning == [crop |-> "Crop failed", shift |-> "Transform failed",
                 normalize |-> "Normalize failed", optimize |-> "Optimization failed",
                 format |-> "Formatting failed"]

\* the step just taken executed stage s and the stage failed
FailedStep(s) ==
  /\ Len(trace') = Len(trace) + 1
  /\ trace'[Len(trace')].stage = s
  /\ ~trace'[Len(trace')].ok

\* the viewBox the coordinate shift is gated on, as seen from the final state
ViewBoxAtShift ==
  IF StageOk("crop") THEN BoundsViewBox(bounds)
  ELSE IF viewBoxBefore # NullViewBox THEN viewBoxBefore ELSE BoundsViewBox(bounds)

StageEnabled(t) ==
  CASE t = "crop" -> opts.cropWhitespace
    [] t = "shift" -> opts.transformToOrigin
                      /\ (ViewBoxAtShift.minX # 0 \/ ViewBoxAtShift.minY # 0)
    [] t = "normalize" -> opts.normalizeViewBox
    [] t = "optimize" -> opts.optimize
    [] t = "format" -> TRUE

C4_FailingStep ==
  \A s \in LaterStages :
    FailedStep(s) =>
      /\ processedSvg' = processedSvg
      /\ currentViewBox' = currentViewBox
      /\ errors' = errors
      /\ Len(warnings') = Len(warnings) + 1
      /\ SubSeq(warnings', 1, Len(warnings)) = warnings
      /\ warnings'[Len(warnings')][1] = StageWarning[s]

C4_LaterStagesRun ==
  pc = "done" =>
    \A i \in 1..Len(trace) :
      (trace[i].stage \in LaterStages /\ ~trace[i].ok) =>
        /\ trace[i].out = trace[i].in
        /\ \A t \in LaterStages :
             (StageIdx(t) > StageIdx(trace[i].stage) /\ StageEnabled(t)) =>
               \E j \in (i + 1)..Len(trace) : trace[j].stage = t
        /\ i < Len(trace) => trace[i + 1].in = trace[i].in
        /\ i = Len(trace) => result.svg = trace[i].in

\* C4: a failing crop, shift, normalize, optimize or format stage leaves the
\* working document and the tracked viewBox as they were, appends exactly one
\* warning (its own), and every later enabled stage still runs, the next one
\* on the document the failed stage was given.
C4_StageFailureIsLocal == [][C4_FailingStep]_vars /\ []C4_LaterStagesRun

C4_Witness ==
  /\ pc = "done"
  /\ StageOk("crop")
  /\ StageFailed("normalize")
  /\ StageFailed("optimize")
  /\ StageOk("format")
  /\ Len(warnings) = 2
  /\ currentViewBox = BoundsViewBox(bounds)

\* C5: in every returned result, success is false exactly when errors is
\* non-empty.
C5_SuccessIffNoErrors ==
  pc = "done" => (result.success = FALSE <=> result.errors # <<>>)

C5_Witness ==
  /\ pc = "done"
  /\ result.success
  /\ result.errors = <<>>
  /\ result.warnings # <<>>
  /\ StageFailed("optimize")

\* C6: when the scan finds no visible path, processSvg returns at once:
\* success = true, result.svg is the input, the only warning is 'No paths
\* found in SVG - nothing to process', and no stage after the scan executed.
C6_NoPathsShortCircuit ==
  (pc = "done" /\ parsed # NoParsed /\ parsed.paths = <<>>) =>
    /\ result.success
    /\ result.svg = svgString
    /\ result.warnings = <<<<NoPathsWarning, "">>>>
    /\ result.errors = <<>>
    /\ \A i \in 1..Len(trace) : trace[i].stage = "scan"

\* a document whose only path sits inside <defs>
C6_Witness ==
  /\ pc = "done"
  /\ parsed # NoParsed
  /\ parsed.paths = <<>>
  /\ \E i \in 1..Len(svgString.tags) : IsPathWithD(svgString.tags[i])
  /\ result.warnings = <<<<NoPathsWarning, "">>>>

\* C7: the stages that execute do so in the order scan, bounds, crop, shift,
\* normalize, optimize, format, none twice; the scan is given the input, each
\* later stage the document the previously executed stage produced, and the
\* result carries the document of the last one.
C7_FixedStageOrder ==
  /\ \A i \in 1..(Len(trace) - 1) :
       /\ StageIdx(trace[i].stage) < StageIdx(trace[i + 1].stage)
       /\ trace[i + 1].in = trace[i].out
  /\ trace # <<>> => (trace[1].stage = "scan" /\ trace[1].in = svgString)
  /\ (pc = "done" /\ result.success) => result.svg = trace[Len(trace)].out

C7_Witness ==
  /\ pc = "done"
  /\ Len(trace) = 7
  /\ \A i \in 1..7 : trace[i].stage = Stages[i] /\ trace[i].ok
  /\ trace[4].out # trace[4].in

\* the value of an option as the caller sees it: the value passed, or the
\* documented default (all true except minify) when the key is left out
Effective(o) == IF o \in DOMAIN options THEN options[o] ELSE o # "minify"

OptionStages == {<<"cropWhitespace", "crop">>, <<"transformToOrigin", "shift">>,
                 <<"normalizeViewBox", "normalize">>, <<"optimize", "optimize">>}

C8_Inv ==
  /\ pc # "start" => \A o \in OptionNames : opts[o] = Effective(o)
  /\ \A os \in OptionStages : ~Effective(os[1]) => ~StageRan(os[2])
  /\ \A i \in 1..Len(trace) : trace[i].stage \in {Stages[k] : k \in 1..Len(Stages)}
  /\ (processedSvg # NoDoc /\ ~Effective("minify")) =>
       \A k \in 1..Len(processedSvg.marks) : processedSvg.marks[k] # "minified"

C8_Step ==
  \A os \in OptionStages :
    (pc = os[2] /\ ~Effective(os[1])) =>
      /\ processedSvg' = processedSvg
      /\ currentViewBox' = currentViewBox
      /\ warnings' = warnings

\* C8: the options merge with the defaults (all true except minify); a stage
\* whose option is false never runs and its step changes neither the document
\* nor the tracked viewBox, whatever the other options are; with minify false
\* the output is never minified.
C8_OptionsToggleOwnStage == []C8_Inv /\ [][C8_Step]_vars

C8_Witness ==
  /\ pc = "done"
  /\ result.success
  /\ "optimize" \notin DOMAIN options
  /\ "cropWhitespace" \in DOMAIN options
  /\ ~options["cropWhitespace"]
  /\ ~StageRan("crop")
  /\ StageOk("normalize")
  /\ StageOk("optimize")

\* where a box lands under a matrix: the enclosing box of its four corners
MapX(m, x, y) == m[1] * x + m[3] * y + m[5]
MapY(m, x, y) == m[2] * x + m[4] * y + m[6]
RenderedMinX(rec) ==
  Min(Min(MapX(rec.matrix, rec.d.x, rec.d.y), MapX(rec.matrix, rec.d.x2, rec.d.y)),
      Min(MapX(rec.matrix, rec.d.x, rec.d.y2), MapX(rec.matrix, rec.d.x2, rec.d.y2)))
RenderedMinY(rec) ==
  Min(Min(MapY(rec.matrix, rec.d.x, rec.d.y), MapY(rec.matrix, rec.d.x2, rec.d.y)),
      Min(MapY(rec.matrix, rec.d.x, rec.d.y2), MapY(rec.matrix, rec.d.x2, rec.d.y2)))

VisibleGeometry(doc) == extractVisualPathsWithTransforms(SvgElement(doc.tags))

DeclaredViewBox(doc) == ParseViewBoxAttr(SvgElement(doc.tags))

\* the case of C9: one visible geometry, a viewport with a non-zero origin,
\* and crop, coordinate shift and viewport normalize all applied
C9_Case ==
  /\ pc = "done"
  /\ result.success
  /\ Len(VisibleGeometry(svgString)) = 1
  /\ viewBoxBefore # NullViewBox
  /\ (viewBoxBefore.minX # 0 \/ viewBoxBefore.minY # 0)
  /\ StageOk("crop")
  /\ StageOk("shift")
  /\ StageOk("normalize")

\* C9: for a document with a single visible geometry and a viewport whose
\* origin is not (0,0), after crop, coordinate shift and viewport normalize
\* the reported and the declared viewBox start at (0,0) and the minimum of
\* the geometry's bounding box, where the geometry is drawn, is (0,0).
C9_RoundTripToOrigin ==
  C9_Case =>
    /\ result.stats.viewBoxAfter.minX = 0
    /\ result.stats.viewBoxAfter.minY = 0
    /\ DeclaredViewBox(result.svg) # NullViewBox
    /\ DeclaredViewBox(result.svg).minX = 0
    /\ DeclaredViewBox(result.svg).minY = 0
    /\ \A k \in 1..Len(VisibleGeometry(result.svg)) :
         /\ RenderedMinX(VisibleGeometry(result.svg)[k]) = 0
         /\ RenderedMinY(VisibleGeometry(result.svg)[k]) = 0

\* a document whose only drawable content is a shape that is not a path
ShapeOnly(doc) ==
  /\ ~NoRoot(doc)
  /\ \E i \in 1..Len(doc.tags) : doc.tags[i].name = "rect"
  /\ \A i \in 1..Len(doc.tags) : doc.tags[i].name \in {"svg", "rect"}

HasNoPathsWarning(r) ==
  \E k \in 1..Len(r.warnings) : r.warnings[k][1] = NoPathsWarning

\* C10: with preprocessShapes enabled (the default) a document whose only
\* drawable content is a non-path shape is not answered with the 'No paths
\* found' warning; with preprocessShapes false it is.
C10_PreprocessBeforeScan ==
  (pc = "done" /\ ShapeOnly(svgString)) =>
    (HasNoPathsWarning(result) <=> ~Effective("preprocessShapes"))

(* ======================================================================= *)
(* Properties of transformPathsToOrigin                                    *)
(* ======================================================================= *)
Returned(fn) == call.fn = fn /\ ret # NoRet

\* the root element of a document: its first and its last tag
RootOpenIdx(tags)  == FirstIdx(tags, LAMBDA t : t.kind # "text")
RootCloseIdx(tags) == LastIdx(tags, LAMBDA t : t.kind # "text")

ContainsTransformedGroup(tags) ==
  \E k \in 1..Len(tags) :
    tags[k].name = "g" /\ tags[k].kind # "close" /\ tags[k].tf # NoAttr

NonZeroOffset(viewBox) == viewBox.minX # 0 \/ viewBox.minY # 0

\* path data moved by (dx, dy)
Moved(d, dx, dy) == PathData(TRUE, d.x + dx, d.y + dy, d.x2 + dx, d.y2 + dy)

Geometries(tags) == {k \in 1..Len(tags) : tags[k].d # NoAttr}
Rejected(tags) == {k \in Geometries(tags) : ~tags[k].d[1].valid}

C11_Case ==
  /\ Returned("transformPathsToOrigin")
  /\ NonZeroOffset(call.viewBox)
  /\ ContainsTransformedGroup(call.svgString.tags)

\* C11: when the document contains a group with a transform attribute and
\* the offset is not zero, the result is the input with one group
\* <g transform="translate(-minX, -minY)"> inserted right after the root
\* opening tag and its </g> right before the root closing tag; every other
\* tag, with its d and transform attributes, is the tag of the input.
C11_WrapsOnce ==
  C11_Case =>
    LET in == call.svgString.tags
        out == ret.val.tags
        i == RootOpenIdx(in)
        j == RootCloseIdx(in)
        wrapper == GroupTag("open", <<Translate(0 - call.viewBox.minX,
                                                0 - call.viewBox.minY)>>)
    IN  /\ ret.ok
        /\ ret.val.marks = call.svgString.marks
        /\ Len(out) = Len(in) + 2
        /\ \A k \in 1..i : out[k] = in[k]
        /\ out[i + 1] = wrapper
        /\ \A k \in (i + 1)..(j - 1) : out[k + 1] = in[k]
        /\ out[j + 1] = Close("g")
        /\ \A k \in j..Len(in) : out[k + 2] = in[k]

\* a wrapped document holding a transformed group and geometry inside <defs>
C11_Witness ==
  /\ C11_Case
  /\ ret.ok
  /\ \E k \in 1..Len(call.svgString.tags) : call.svgString.tags[k] = Open("defs")
  /\ Geometries(call.svgString.tags) # {}
  /\ Len(ret.val.tags) = Len(call.svgString.tags) + 2

C12_Case ==
  /\ Returned("transformPathsToOrigin")
  /\ NonZeroOffset(call.viewBox)
  /\ ~ContainsTransformedGroup(call.svgString.tags)

\* C12: when no group of the document has a transform attribute and the
\* offset is not zero, the result has the tags of the input, in which every
\* d attribute holding path data is moved by (-minX, -minY), inside <defs>
\* as outside; no tag is added and no tag without path data changes.
C12_ShiftsEveryGeometry ==
  C12_Case =>
    LET in == call.svgString.tags
        out == ret.val.tags
    IN  /\ ret.ok
        /\ ret.val.marks = call.svgString.marks
        /\ Len(out) = Len(in)
        /\ \A k \in 1..Len(in) :
             IF k \in Geometries(in) \ Rejected(in)
             THEN out[k].d = <<Moved(in[k].d[1], 0 - call.viewBox.minX,
                                     0 - call.viewBox.minY)>>
             ELSE k \notin Geometries(in) => out[k] = in[k]

\* a direct shift of a document with geometry inside <defs> and outside it
C12_Witness ==
  /\ C12_Case
  /\ ret.ok
  /\ \E k \in Geometries(call.svgString.tags) :
       /\ call.svgString.tags[k - 1] = Open("defs")
       /\ ret.val.tags[k].d # call.svgString.tags[k].d
  /\ \E k \in Geometries(call.svgString.tags) :
       /\ call.svgString.tags[k - 1] # Open("defs")
       /\ ret.val.tags[k].d # call.svgString.tags[k].d

C13_Case == C12_Case /\ Rejected(call.svgString.tags) # {}

\* C13: in a direct shift, for every geometry the engine rejects the call
\* returns normally, leaves that geometry's tag as it was and writes one
\* warning naming its data; every other geometry is moved.
C13_EngineFailureIsLocal ==
  C13_Case =>
    LET in == call.svgString.tags
        out == ret.val.tags
    IN  /\ ret.ok
        /\ Len(out) = Len(in)
        /\ \A k \in Rejected(in) : out[k] = in[k]
        /\ Len(console) = Cardinality(Rejected(in))
        /\ \A k \in Rejected(in) :
             \E w \in 1..Len(console) :
               console[w] = <<"Failed to transform path", in[k].d[1]>>
        /\ \A k \in Geometries(in) \ Rejected(in) :
             out[k].d = <<Moved(in[k].d[1], 0 - call.viewBox.minX,
                                0 - call.viewBox.minY)>>

\* a rejected geometry followed by one the engine accepts
C13_Witness ==
  /\ C13_Case
  /\ ret.ok
  /\ \E k \in Rejected(call.svgString.tags) :
       \E m \in Geometries(call.svgString.tags) \ Rejected(call.svgString.tags) :
         k < m /\ ret.val.tags[m].d # call.svgString.tags[m].d
  /\ console # <<>>

(* ======================================================================= *)
(* Properties of the tag scanners                                          *)
(* ======================================================================= *)
\* the number of elements named n that tags[1..p] open and do not close
RECURSIVE OpenCount(_, _, _)
OpenCount(tags, p, n) ==
  IF p = 0 THEN 0
  ELSE LET c == OpenCount(tags, p - 1, n)
       IN  IF tags[p].name = n /\ tags[p].kind = "open" THEN c + 1
           ELSE IF tags[p].name = n /\ tags[p].kind = "close" /\ c > 0 THEN c - 1
           ELSE c

InsideContainer(tags, p) == \E n \in nonVisualTags : OpenCount(tags, p, n) > 0

\* the containers open after tags[1..p] when they nest properly, innermost
\* last; Misnested when a container is closed while another one, opened
\* inside it, is still open.  A closing tag with nothing open is ignored.
Misnested == <<"misnested", "misnested">>
RECURSIVE OpenContainers(_, _)
OpenContainers(tags, p) ==
  IF p = 0 THEN <<>>
  ELSE LET before == OpenContainers(tags, p - 1)
           t == tags[p]
       IN  IF before = Misnested \/ t.name \notin nonVisualTags THEN before
           ELSE IF t.kind = "open" THEN Append(before, t.name)
           ELSE IF t.kind # "close" \/ before = <<>> THEN before
           ELSE IF before[Len(before)] = t.name THEN Front(before)
           ELSE Misnested

\* the path data a scan function returns for a tag sequence
ScannedData(fn, tags) ==
  IF fn = "extractVisualPaths" THEN extractVisualPaths(tags)
  ELSE LET rs == extractVisualPathsWithTransforms(tags)
       IN  [k \in 1..Len(rs) |-> rs[k].d]

ReturnedData ==
  IF call.fn = "extractVisualPaths" THEN ret.val
  ELSE [k \in 1..Len(ret.val) |-> ret.val[k].d]

C14_Case ==
  /\ Returned("extractVisualPaths") \/ Returned("extractVisualPathsWithTransforms")
  /\ \A p \in 1..Len(call.svgElement) : call.svgElement[p].name # "image"

IsGroupOpen(t) == t.name = "g" /\ t.kind = "open"

CountIn(tags, from, to, Test(_)) == Cardinality({q \in from..to : Test(tags[q])})

\* the group opened by tags[i] is open at position p: no </g> between them
\* closes it
OpenAt(tags, i, p) ==
  /\ i < p
  /\ IsGroupOpen(tags[i])
  /\ \A q \in (i + 1)..(p - 1) :
       CountIn(tags, i + 1, q, LAMBDA t : t.name = "g" /\ t.kind = "close")
         <= CountIn(tags, i + 1, q, IsGroupOpen)

AttrMatrix(t) == IF t.tf = NoAttr THEN IDENTITY_MATRIX ELSE parseTransformToMatrix(t.tf[1])

\* the product, outermost first, of the matrices of the groups among
\* tags[i..p-1] that are open at p
RECURSIVE ProductOfOpen(_, _, _)
ProductOfOpen(tags, i, p) ==
  IF i >= p THEN IDENTITY_MATRIX
  ELSE IF OpenAt(tags, i, p)
       THEN multiplyMatrices(AttrMatrix(tags[i]), ProductOfOpen(tags, i + 1, p))
       ELSE ProductOfOpen(tags, i + 1, p)

C15_Case ==
  /\ Returned("extractVisualPathsWithTransforms")
  /\ \A p \in 1..Len(call.svgElement) : call.svgElement[p].name # "image"

\* C15: the record a visible path adds to the result of
\* extractVisualPathsWithTransforms carries the product, outermost first, of
\* the matrices of the groups open at the path, times the matrix of the
\* path's own transform attribute; nested translate(10,20) and
\* translate(30,40) give (1,0,0,1,40,60).
C15_AccumulatedMatrix ==
  C15_Case =>
    LET tags == call.svgElement
        Upto(p) == extractVisualPathsWithTransforms(SubSeq(tags, 1, p))
    IN  /\ ret.val = Upto(Len(tags))
        /\ \A p \in 1..Len(tags) :
             Len(Upto(p)) = Len(Upto(p - 1)) + 1 =>
               Upto(p) = Append(Upto(p - 1),
                                [d |-> tags[p].d[1],
                                 matrix |-> multiplyMatrices(ProductOfOpen(tags, 1, p),
                                                             AttrMatrix(tags[p]))])
        /\ tags = NestedTranslations =>
             ret.val = <<[d |-> PathData(TRUE, 0, 0, 5, 5), matrix |-> <<1, 0, 0, 1, 40, 60>>]>>

\* <g scale(2)><g translate(10,20)></g><path transform="translate(30,40)"/>:
\* the closed group contributes nothing, the open one is applied outside
\* the path's own transform
C15_Witness ==
  /\ C15_Case
  /\ call.svgElement = <<GroupTag("open", <<Scale(2)>>),
                          GroupTag("open", <<Translate(10, 20)>>), Close("g"),
                          PathTag(OtherPath, <<Translate(30, 40)>>)>>
  /\ ret.val = <<[d |-> OtherPath, matrix |-> <<2, 0, 0, 2, 60, 80>>]>>

(* ======================================================================= *)
(* Properties of the bounds calculators                                    *)
(* ======================================================================= *)
Least(S) == CHOOSE v \in S : \A w \in S : v <= w
Greatest(S) == CHOOSE v \in S : \A w \in S : v >= w

\* the records of a paths array the engine measures, and those among them
\* measured with finite coordinates
Succeeded(paths) == {k \in 1..Len(paths) : ~IsBlank(paths[k]) /\ paths[k].valid}
FiniteOnes(paths) == {k \in Succeeded(paths) : "nonFinite" \notin DOMAIN paths[k]}

C16_Case == Returned("getContentBounds")

\* C16: getContentBounds fails on an empty array and on an array in which
\* no path is measured with finite coordinates; it never returns a box built
\* from a non-finite coordinate; otherwise, whatever paths the engine
\* rejects, it returns the box spanning from the least x and y to the
\* greatest x2 and y2 of exactly the paths the engine measured.
C16_UnionOfMeasured ==
  C16_Case =>
    LET paths == call.paths
        ok == Succeeded(paths)
    IN  /\ paths = <<>> => ~ret.ok
        /\ FiniteOnes(paths) = {} => ~ret.ok
        /\ ret.ok => ok = FiniteOnes(paths)
        /\ (ok # {} /\ ok = FiniteOnes(paths)) =>
             /\ ret.ok
             /\ ret.val.x = Least({paths[k].x : k \in ok})
             /\ ret.val.y = Least({paths[k].y : k \in ok})
             /\ ret.val.x2 = Greatest({paths[k].x2 : k \in ok})
             /\ ret.val.y2 = Greatest({paths[k].y2 : k \in ok})
             /\ ret.val.width = ret.val.x2 - ret.val.x
             /\ ret.val.height = ret.val.y2 - ret.val.y

\* ['M 6 7 L 9 9', rejected, tall path]: the rejected path is skipped, the
\* union takes its sides from both measured paths
C16_Witness ==
  /\ C16_Case
  /\ call.paths = <<OrdinaryPath, RejectedPath, TallPath>>
  /\ ret = Ok(BoundingBox(1, 7, 9, 20))
  /\ console # <<>>

(* ----------------------------------------------------------------------- *)
\* the corners of the local boxes of the measured records, each mapped
\* through its record's matrix
MappedCorners(records) ==
  UNION {{MapPoint(records[k].matrix, cx, cy) :
            cx \in {records[k].d.x, records[k].d.x2},
            cy \in {records[k].d.y, records[k].d.y2}} :
         k \in {j \in 1..Len(records) : records[j].d.valid}}

EnclosingBox(points) ==
  BoundingBox(Least({pt[1] : pt \in points}), Least({pt[2] : pt \in points}),
              Greatest({pt[1] : pt \in points}), Greatest({pt[2] : pt \in points}))

C17_Case == Returned("getTransformAwareBounds") /\ ret.ok

\* C17: the transform-aware bounds are the enclosing box of all four mapped
\* corners of every measured record; scale(2) on (10,10)-(20,20) gives
\* (20,20)-(40,40); when every matrix is the identity the result is the
\* plain union getContentBounds returns for the same path data.
C17_EnclosesMappedCorners ==
  C17_Case =>
    LET records == call.paths
        ds == [k \in 1..Len(records) |-> records[k].d]
    IN  /\ ret.val = EnclosingBox(MappedCorners(records))
        /\ records = <<[d |-> DiagonalPath, matrix |-> <<2, 0, 0, 2, 0, 0>>]>> =>
             ret.val = BoundingBox(20, 20, 40, 40)
        /\ (\A k \in 1..Len(records) : records[k].matrix = IDENTITY_MATRIX) =>
             ret = getContentBounds(ds)

\* a record turned by a quarter and an untransformed record, unioned
C17_Witness ==
  /\ C17_Case
  /\ Len(call.paths) = 2
  /\ call.paths[1].matrix = <<0, 1, -1, 0, 0, 0>> /\ call.paths[1].d.valid
  /\ call.paths[2].matrix = IDENTITY_MATRIX /\ call.paths[2].d.valid

(* ----------------------------------------------------------------------- *)
\* C18: the bounds processSvg crops and normalizes with are the
\* transform-aware bounds of the visible geometry: the enclosing box of the
\* local boxes mapped through the accumulated matrices.
C18_BoundsFollowTransforms ==
  bounds # NoBounds =>
    bounds = EnclosingBox(MappedCorners(extractVisualPathsWithTransforms(parsed.element)))

(* ======================================================================= *)
(* Properties of parseSvg and normalizeViewBox                             *)
(* ======================================================================= *)
\* the attribute value holds exactly four numeric tokens, the width and the
\* height positive
ValidViewport(vb) ==
  /\ vb # NoAttr
  /\ Len(vb[1]) = 4
  /\ \A k \in 1..4 : vb[1][k] # NaN
  /\ vb[1][3] > 0 /\ vb[1][4] > 0

C19_Case == Returned("parseSvg") /\ ret.ok

\* C19: parseSvg reports the viewBox of the root element when its value is
\* four numeric tokens with positive width and height, and reports none
\* when the attribute is absent or its value is anything else.
C19_ViewportOnlyWhenValid ==
  C19_Case =>
    LET tags == call.svgString.tags
        vb == tags[RootOpenIdx(tags)].vb
    IN  ret.val.viewBox = IF ValidViewport(vb)
                          THEN ViewBox(vb[1][1], vb[1][2], vb[1][3], vb[1][4])
                          ELSE NullViewBox

(* ----------------------------------------------------------------------- *)
C20_Case == Returned("normalizeViewBox")

\* C20: normalizeViewBox(doc, w, h) with w > 0 and h > 0 returns the
\* document with viewBox "0 0 w h" on the root element, without width,
\* height and preserveAspectRatio on the root element, and with every other
\* tag and every other root attribute as it was; with w <= 0 or h <= 0 it
\* throws.
C20_OnlyRootFrameChanges ==
  C20_Case =>
    LET tags == call.svgString.tags
        r == RootOpenIdx(tags)
    IN  IF call.width > 0 /\ call.height > 0
        THEN /\ ret.ok
             /\ Len(ret.val.tags) = Len(tags)
             /\ ret.val.tags[r] =
                  [tags[r] EXCEPT !.vb = <<<<0, 0, call.width, call.height>>>>,
                                  !.attrs = @ \ {"width", "height", "preserveAspectRatio"}]
             /\ \A k \in 1..Len(tags) : k # r => ret.val.tags[k] = tags[k]
        ELSE ~ret.ok

(* ======================================================================= *)
(* Properties of the direct shift                                          *)
(* ======================================================================= *)
\* the visible geometry of a document with its accumulated matrices
VisibleRecords(tags) == extractVisualPathsWithTransforms(SvgElement(tags))

\* the box a record covers in the coordinate space of the root
RootSpaceBox(record) ==
  MappedBox([x |-> record.d.x, y |-> record.d.y, x2 |-> record.d.x2, y2 |-> record.d.y2],
            record.matrix)

\* the direct shift has been selected and has run
C21_Case ==
  /\ Returned("transformPathsToOrigin")
  /\ NonZeroOffset(call.viewBox)
  /\ ~ContainsTransformedGroup(call.svgString.tags)

\* C21: when the direct shift is selected, every visible geometry of the
\* document has the identity as its accumulated matrix, and what the engine
\* shifts has moved by exactly (dx, dy) in the coordinate space of the root.
C21_DirectShiftInRootSpace ==
  C21_Case =>
    LET before == VisibleRecords(call.svgString.tags)
        after == VisibleRecords(ret.val.tags)
        dx == 0 - call.viewBox.minX
        dy == 0 - call.viewBox.minY
    IN  /\ \A k \in 1..Len(before) : before[k].matrix = IDENTITY_MATRIX
        /\ Len(after) = Len(before)
        /\ \A k \in 1..Len(before) :
             before[k].d.valid =>
               LET b == RootSpaceBox(before[k])
                   a == RootSpaceBox(after[k])
               IN  a = [x |-> b.x + dx, y |-> b.y + dy, x2 |-> b.x2 + dx, y2 |-> b.y2 + dy]

(* ======================================================================= *)
(* Further properties of the tag scanners                                  *)
(* ======================================================================= *)
Scan(fn, tags) ==
  IF fn = "extractVisualPaths" THEN extractVisualPaths(tags)
  ELSE extractVisualPathsWithTransforms(tags)

Without(tags, p) == SubSeq(tags, 1, p - 1) \o SubSeq(tags, p + 1, Len(tags))

IsSelfClosingGroupOrContainer(t) ==
  t.kind = "self" /\ t.name \in nonVisualTags \cup {"g"}

C22_Case ==
  /\ Returned("extractVisualPaths") \/ Returned("extractVisualPathsWithTransforms")
  /\ \E p \in 1..Len(call.svgElement) : IsSelfClosingGroupOrContainer(call.svgElement[p])

\* C22: a scan of a tag sequence that holds a self-closing <g/> or a
\* self-closing non-visual container returns what the scan of the sequence
\* without that tag returns: the same paths with the same matrices.
C22_SelfClosingPushesNothing ==
  C22_Case =>
    \A p \in 1..Len(call.svgElement) :
      IsSelfClosingGroupOrContainer(call.svgElement[p]) =>
        ret.val = Scan(call.fn, Without(call.svgElement, p))

\* <g transform="translate(10, 20)"/><path/>: the path keeps the identity
C22_Witness ==
  /\ C22_Case
  /\ call.fn = "extractVisualPathsWithTransforms"
  /\ call.svgElement = <<GroupTag("self", <<Translate(10, 20)>>),
                         PathTag(OrdinaryPath, NoAttr)>>
  /\ ret.val = <<[d |-> OrdinaryPath, matrix |-> IDENTITY_MATRIX]>>

(* ----------------------------------------------------------------------- *)
\* an <svg ...> tag with a </svg> after it
RootLocated(tags) ==
  \E i, j \in 1..Len(tags) : i < j /\ IsSvgOpen(tags[i]) /\ IsSvgClose(tags[j])

RECURSIVE IsSubSeq(_, _)
IsSubSeq(a, b) ==
  IF a = <<>> THEN TRUE
  ELSE IF b = <<>> THEN FALSE
  ELSE IF Head(a) = Head(b) THEN IsSubSeq(Tail(a), Tail(b))
  ELSE IsSubSeq(a, Tail(b))

\* the data of the <path> tags of a tag sequence, in document order
PathDataOf(tags) ==
  LET ps == SelectSeq(tags, LAMBDA t : t.name = "path" /\ t.d # NoAttr)
  IN  [k \in 1..Len(ps) |-> ps[k].d[1]]

\* a closing </g> or closing container tag at p with no such element open
StrayClose(tags, p) ==
  /\ tags[p].kind = "close"
  /\ tags[p].name \in nonVisualTags \cup {"g"}
  /\ OpenCount(tags, p - 1, tags[p].name) = 0

C23_Case ==
  \/ Returned("parseSvg")
  \/ Returned("extractVisualPaths")
  \/ Returned("extractVisualPathsWithTransforms")

\* C23: parseSvg throws exactly when the input holds no <svg ...> tag
\* followed by </svg>; otherwise it returns, whatever the balance of the
\* tags in between, paths that are a subsequence of the path data of the
\* document.  In both scanners a closing tag that arrives with nothing open
\* pops nothing: the scan returns what it returns without that tag.
C23_FailsOnlyWithoutRoot ==
  /\ Returned("parseSvg") =>
       /\ ret.ok <=> RootLocated(call.svgString.tags)
       /\ ret.ok => IsSubSeq(ret.val.paths, PathDataOf(call.svgString.tags))
       /\ ret.ok => \A p \in 1..Len(ret.val.element) :
                      StrayClose(ret.val.element, p) =>
                        ret.val.paths = extractVisualPaths(Without(ret.val.element, p))
  /\ (Returned("extractVisualPaths") \/ Returned("extractVisualPathsWithTransforms")) =>
       \A p \in 1..Len(call.svgElement) :
         StrayClose(call.svgElement, p) =>
           ret.val = Scan(call.fn, Without(call.svgElement, p))

\* <svg></g><g transform="translate(2,3)"><path/></svg>: a stray </g>, an
\* unclosed group, and the path is still returned
C23_Witness ==
  /\ Returned("parseSvg")
  /\ ret.ok
  /\ \E p \in 1..Len(ret.val.element) :
       /\ StrayClose(ret.val.element, p)
       /\ \E q \in (p + 1)..Len(ret.val.element) :
            ret.val.element[q] = GroupTag("open", <<Translate(2, 3)>>)
  /\ ret.val.paths = <<OrdinaryPath>>

(* ----------------------------------------------------------------------- *)
\* the attribute holds a number greater than 0
Positive(attr) == attr # NoAttr /\ attr[1] # NaN /\ attr[1] > 0

C24_Case ==
  /\ Returned("extractVisualPathsWithTransforms")
  /\ \E p \in 1..Len(call.svgElement) : call.svgElement[p].name = "image"

\* C24: an <image> outside every non-visual container whose width and
\* height are numbers greater than 0 adds exactly one record: the rectangle
\* from (x, y) to (x + width, y + height), x and y taken as 0 when absent,
\* with the product of the matrices of the open groups times the matrix of
\* its own transform; any other <image> adds nothing.
C24_ImageRecord ==
  C24_Case =>
    LET tags == call.svgElement
        Upto(p) == extractVisualPathsWithTransforms(SubSeq(tags, 1, p))
        Coord(attr) == IF attr = NoAttr THEN 0 ELSE attr[1]
    IN  /\ ret.val = Upto(Len(tags))
        /\ \A p \in 1..Len(tags) :
             tags[p].name = "image" =>
               IF Positive(tags[p].width) /\ Positive(tags[p].height)
                  /\ ~InsideContainer(tags, p)
               THEN Upto(p) =
                      Append(Upto(p - 1),
                             [d |-> PathData(TRUE, Coord(tags[p].x), Coord(tags[p].y),
                                             Coord(tags[p].x) + tags[p].width[1],
                                             Coord(tags[p].y) + tags[p].height[1]),
                              matrix |-> multiplyMatrices(ProductOfOpen(tags, 1, p),
                                                          AttrMatrix(tags[p]))])
               ELSE Upto(p) = Upto(p - 1)

\* <g transform="scale(2)"><image width="10" height="5"
\* transform="translate(30, 40)"/>
C24_Witness ==
  /\ C24_Case
  /\ call.svgElement = <<GroupTag("open", <<Scale(2)>>),
                         ImageTag(NoAttr, NoAttr, <<10>>, <<5>>, <<Translate(30, 40)>>)>>
  /\ ret.val = <<[d |-> PathData(TRUE, 0, 0, 10, 5), matrix |-> <<2, 0, 0, 2, 60, 80>>]>>

(* ======================================================================= *)
(* Properties of parseTransformToMatrix                                    *)
(* ======================================================================= *)
\* the matrix of one function of the list; the identity for text that is
\* no call of a transform function
MatrixOf(f) ==
  IF f.fn \in KnownFunctions /\ f.args # <<>> THEN FunctionMatrix(f) ELSE IDENTITY_MATRIX

\* a point taken through the functions of a list, the last function first
RECURSIVE ApplyAll(_, _)
ApplyAll(fns, pt) ==
  IF fns = <<>> THEN pt
  ELSE LET inner == ApplyAll(Tail(fns), pt)
       IN  MapPoint(MatrixOf(Head(fns)), inner[1], inner[2])

C25_Case == Returned("parseTransformToMatrix")

\* C25: the matrix parsed from f1 f2 ... fn is M(f1) M(f2) ... M(fn): it
\* takes a point where f1 takes the point that f2 takes ... that fn takes
\* the point; text that is no transform function counts as the identity, and
\* the empty list gives the identity.
C25_RightMultiplication ==
  C25_Case =>
    /\ ret.ok
    /\ \A pt \in {<<0, 0>>, <<1, 0>>, <<0, 1>>} :
         MapPoint(ret.val, pt[1], pt[2]) = ApplyAll(call.transformStr, pt)
    /\ call.transformStr = <<>> => ret.val = IDENTITY_MATRIX
    /\ (\A k \in 1..Len(call.transformStr) :
          call.transformStr[k].fn \notin KnownFunctions) => ret.val = IDENTITY_MATRIX

\* translate(2, 0) scale(2): the translation is applied to the scaled point
C25_Witness ==
  /\ C25_Case
  /\ call.transformStr = <<[fn |-> "translate", args |-> <<2, 0>>],
                           [fn |-> "scale", args |-> <<2>>]>>
  /\ ret.val = <<2, 0, 0, 2, 2, 0>>

(* ----------------------------------------------------------------------- *)
C26_Case ==
  /\ Returned("parseTransformToMatrix")
  /\ Len(call.transformStr) = 1
  /\ call.transformStr[1].fn \in {"translate", "scale"}
  /\ call.transformStr[1].args # <<>>

\* C26: for every argument value, 0 and negative values too, translate(x)
\* parses to (1,0,0,1,x,0), translate(x,y) to (1,0,0,1,x,y), scale(s) to
\* (s,0,0,s,0,0) and scale(sx,sy) to (sx,0,0,sy,0,0).
C26_TranslateAndScale ==
  C26_Case =>
    LET f == call.transformStr[1]
        a == f.args
    IN  /\ ret.ok
        /\ ret.val =
             IF f.fn = "translate"
             THEN <<1, 0, 0, 1, a[1], IF Len(a) > 1 THEN a[2] ELSE 0>>
             ELSE <<a[1], 0, 0, IF Len(a) > 1 THEN a[2] ELSE a[1], 0, 0>>

(* ======================================================================= *)
(* Further properties of processSvg                                        *)
(* ======================================================================= *)
C27_Case ==
  /\ pc = "done"
  /\ result.success
  /\ StageOk("normalize")
  /\ MappedCorners(VisibleRecords(result.svg.tags)) # {}

\* C27: when processSvg succeeds and normalizeViewBox has been applied, the
\* box of the visible content of the returned document, each geometry taken
\* through its accumulated matrix, lies inside [0, width] x [0, height] of
\* the reported viewBox.
C27_ContentInsideViewport ==
  C27_Case =>
    LET box == EnclosingBox(MappedCorners(VisibleRecords(result.svg.tags)))
        after == result.stats.viewBoxAfter
    IN  /\ 0 <= box.x /\ box.x2 <= after.width
        /\ 0 <= box.y /\ box.y2 <= after.height

(* ----------------------------------------------------------------------- *)
C28_Case == pc = "done" /\ result.success

\* C28: in every successful result, stats.viewBoxAfter is the viewBox the
\* root element of the returned document declares.
C28_ReportedIsDeclared ==
  C28_Case => result.stats.viewBoxAfter = DeclaredViewBox(result.svg)

(* ======================================================================= *)
(* Frame of the direct shift                                               *)
(* ======================================================================= *)
\* C29: a direct shift returns the input document in which the data of
\* every d attribute the engine accepts is moved and nothing else differs:
\* not the quotes around the d attribute, not any other attribute, not any
\* other tag.
C29_OnlyCoordinateDataChanges ==
  C12_Case =>
    LET in == call.svgString.tags
        out == ret.val.tags
    IN  /\ ret.ok
        /\ ret.val.marks = call.svgString.marks
        /\ Len(out) = Len(in)
        /\ \A k \in 1..Len(in) :
             out[k] = IF k \in Geometries(in) \ Rejected(in)
                      THEN [in[k] EXCEPT !.d = <<Moved(in[k].d[1], 0 - call.viewBox.minX,
                                                       0 - call.viewBox.minY)>>]
                      ELSE in[k]

(* ----------------------------------------------------------------------- *)
\* C30: in the SvgTool component, whenever state is 'result', the displayed
\* outputSvg, the stats and the download file name all come from one
\* submitted input, and that input is the most recently submitted one.
C30_ResultFromLatestInput ==
  tool.state = "result" =>
    /\ tasks.submitted # <<>>
    /\ tool.outputSvg = SvgOf(Len(tasks.submitted))
    /\ tool.stats = StatsOf(Len(tasks.submitted))
    /\ tool.originalFileName = NameOf(Len(tasks.submitted))
====
